---------------------------- MODULE Spec2Model ----------------------------
(* French-law-mcp: the article-number normalizer (scripts/lib/parser.ts),  *)
(* the citation parser (src/citation/parser.ts) and the FTS5 query builder *)
(* (src/utils/fts-query.ts), the statute identifier resolver               *)
(* (statuteIdCandidates, resolveExistingStatuteId), the citation validator *)
(* (validateCitation), as one call and step by step, the citation          *)
(* formatter (formatCitation, articleTitle) and the tool registry          *)
(* (buildTools, registerTools).                                            *)
(*                                                                         *)
(* A JavaScript string is a sequence of characters; a character is a TLA+  *)
(* string of length one.  Regular expressions are translated to operators  *)
(* over such sequences, one operator per regular expression.               *)
EXTENDS Integers, Sequences, FiniteSets, TLC

VARIABLES
  op,          \* the operation applied last ("init" before any)
  raw,         \* argument of normalizeArticleNum
  normalized,  \* its return value
  citation,    \* argument of parseCitation
  parsed,      \* its return value (a ParsedCitation)
  query,       \* argument of sanitizeFtsInput / buildFtsQueryVariants
  sanitized,   \* return value of sanitizeFtsInput
  variants,    \* return value of buildFtsQueryVariants (an FtsQueryVariants)
  db,          \* the database: the rows of legal_documents and legal_provisions
  inputId,     \* argument of statuteIdCandidates / resolveExistingStatuteId
  candidates,  \* return value of statuteIdCandidates
  resolved,    \* return value of resolveExistingStatuteId
  validation,  \* return value of validateCitation (a ValidationResult)
  format,      \* the format argument of formatCitation
  formatted,   \* return value of formatCitation
  displayTitle,\* return value of articleTitle
  context,     \* the AboutContext passed to registerTools, if any
  allTools,    \* the tool list registerTools closed over
  listed,      \* the tool names the list-tools handler returned
  request,     \* the call-tool request and what the tool it names does
  response,    \* the response of the call-tool handler
  vstate,      \* the position of a validateCitation call
  queries,     \* the storage queries that call has issued, in order
  bestDoc      \* the document that call resolved

vars == <<op, raw, normalized, citation, parsed, query, sanitized, variants,
          db, inputId, candidates, resolved, validation,
          format, formatted, displayTitle,
          context, allTools, listed, request, response,
          vstate, queries, bestDoc>>

---------------------------------------------------------------------------
(* Characters and character classes of the regular expressions.            *)

LowerLetters == <<"a","b","c","d","e","f","g","h","i","j","k","l","m",
                  "n","o","p","q","r","s","t","u","v","w","x","y","z">>
UpperLetters == <<"A","B","C","D","E","F","G","H","I","J","K","L","M",
                  "N","O","P","Q","R","S","T","U","V","W","X","Y","Z">>
Digits == <<"0","1","2","3","4","5","6","7","8","9">>

Range(s) == {s[i] : i \in 1..Len(s)}

\* [a-z], [A-Z], [A-Za-z]
IsLower(c) == c \in Range(LowerLetters)
IsUpper(c) == c \in Range(UpperLetters)
IsAsciiLetter(c) == IsLower(c) \/ IsUpper(c)
\* \d
IsDigit(c) == c \in Range(Digits)
\* \s (and the characters String.prototype.trim removes)
IsSpace(c) == c \in {" ", "\t", "\n"}
\* \w
IsWordChar(c) == IsAsciiLetter(c) \/ IsDigit(c) \/ c = "_"
\* [À-ɏ]: the extended Latin letters of the alphabet used here
IsExtendedLatin(c) == c \in {"é", "É"}

IndexOf(s, c) == CHOOSE i \in 1..Len(s) : s[i] = c

\* String.prototype.toUpperCase / toLowerCase, one character
UpperChar(c) == IF IsLower(c) THEN UpperLetters[IndexOf(LowerLetters, c)]
                ELSE IF c = "é" THEN "É" ELSE c
LowerChar(c) == IF IsUpper(c) THEN LowerLetters[IndexOf(UpperLetters, c)]
                ELSE IF c = "É" THEN "é" ELSE c
toUpperCase(s) == [i \in 1..Len(s) |-> UpperChar(s[i])]
toLowerCase(s) == [i \in 1..Len(s) |-> LowerChar(s[i])]

---------------------------------------------------------------------------
(* String helpers.                                                         *)

Take(s, n) == SubSeq(s, 1, n)
Drop(s, n) == SubSeq(s, n + 1, Len(s))

Min(S) == CHOOSE x \in S : \A y \in S : x <= y
Max(S) == CHOOSE x \in S : \A y \in S : x >= y

\* number of leading whitespace characters: what a greedy \s* consumes
LeadingSpaces(s) ==
  LET stops == {i \in 1..Len(s) : ~IsSpace(s[i])}
  IN  IF stops = {} THEN Len(s) ELSE Min(stops) - 1

\* String.prototype.trim
trim(s) ==
  LET keep == {i \in 1..Len(s) : ~IsSpace(s[i])}
  IN  IF keep = {} THEN <<>> ELSE SubSeq(s, Min(keep), Max(keep))

\* .replace(/\s+/g, ' ')
RECURSIVE CollapseSpaces(_)
CollapseSpaces(s) ==
  IF s = <<>> THEN <<>>
  ELSE IF IsSpace(s[1])
       THEN <<" ">> \o CollapseSpaces(Drop(s, LeadingSpaces(s)))
       ELSE <<s[1]>> \o CollapseSpaces(Drop(s, 1))

\* .replace(/\s+/g, '')
RemoveSpaces(s) == SelectSeq(s, LAMBDA c : ~IsSpace(c))

\* s.includes(t)
Contains(s, t) ==
  \E i \in 0..(Len(s) - Len(t)) : SubSeq(s, i + 1, i + Len(t)) = t

\* s starts with the literal lit, compared case-insensitively (flag i)
StartsWithCI(s, lit) ==
  /\ Len(s) >= Len(lit)
  /\ toLowerCase(Take(s, Len(lit))) = lit

RECURSIVE Flatten(_)
Flatten(ss) == IF ss = <<>> THEN <<>> ELSE ss[1] \o Flatten(Drop(ss, 1))

\* all strings over the alphabet A of length at most n
StringsUpTo(A, n) == UNION {[1..k -> A] : k \in 0..n}

---------------------------------------------------------------------------
(* scripts/lib/parser.ts: article number normalization.                    *)

\* the value `undefined` passed where a string is declared
Undefined == <<"undefined">>

\* (L|R|D|A) under flag i
IsClassLetter(c) == UpperChar(c) \in {"L", "R", "D", "A"}

\* .replace(/^(L|R|D|A)<mark>\s*/i, '$1') for mark = "." and mark = "*"
StripPrefixMark(s, mark) ==
  IF Len(s) >= 2 /\ IsClassLetter(s[1]) /\ s[2] = mark
  THEN <<s[1]>> \o Drop(Drop(s, 2), LeadingSpaces(Drop(s, 2)))
  ELSE s

normalizeArticleNum(r) ==
  IF r = Undefined \/ r = <<>> THEN <<>>
  ELSE trim(RemoveSpaces(StripPrefixMark(StripPrefixMark(r, "."), "*")))

---------------------------------------------------------------------------
(* src/citation/parser.ts: the citation parser.                            *)
(* A match result is <<>> (no match) or the tuple of the captured groups.  *)

\* the first match of a sequence of alternatives, in backtracking order
RECURSIVE FirstMatch(_)
FirstMatch(alts) ==
  IF alts = <<>> THEN <<>>
  ELSE IF alts[1] # <<>> THEN alts[1] ELSE FirstMatch(Drop(alts, 1))

\* \d+(?:-\d+)*(?:-[A-Za-z0-9]+)*  against the whole of t
MatchesNumberPath(t) ==
  /\ t # <<>>
  /\ IsDigit(t[1])
  /\ t[Len(t)] # "-"
  /\ \A i \in 1..Len(t) : IsDigit(t[i]) \/ IsAsciiLetter(t[i]) \/ t[i] = "-"
  /\ \A i \in 1..(Len(t) - 1) : ~(t[i] = "-" /\ t[i + 1] = "-")
  /\ \A i \in 1..Len(t) :
       (\A j \in 1..i : t[j] # "-") => IsDigit(t[i])

\* ARTICLE_TOKEN against the whole of t:
\* (?:[A-Za-z]\s*\.?\s*)?\d+(?:-\d+)*(?:-[A-Za-z0-9]+)*
ARTICLE_TOKEN(t) ==
  \/ MatchesNumberPath(t)
  \/ /\ Len(t) >= 2
     /\ IsAsciiLetter(t[1])
     /\ LET r1 == Drop(Drop(t, 1), LeadingSpaces(Drop(t, 1)))
            r2 == IF r1 # <<>> /\ r1[1] = "." THEN Drop(r1, 1) ELSE r1
            r3 == Drop(r2, LeadingSpaces(r2))
        IN  MatchesNumberPath(r3)

\* (ARTICLE_TOKEN)\.?$ : the token runs to the end, or to a final period
TokenAtEnd(t) ==
  IF ARTICLE_TOKEN(t) THEN <<t>>
  ELSE IF t # <<>> /\ t[Len(t)] = "." /\ ARTICLE_TOKEN(Take(t, Len(t) - 1))
       THEN <<Take(t, Len(t) - 1)>>
       ELSE <<>>

\* \s*(ARTICLE_TOKEN)\.?$ : greedy \s*, giving back one character at a time
SpacesThenToken(s) ==
  LET n == LeadingSpaces(s)
  IN  FirstMatch([k \in 1..(n + 1) |-> TokenAtEnd(Drop(s, n + 1 - k))])

\* (?:article|art\.?) : the alternatives in the order they are tried
ArticleKeywords == <<<<"a","r","t","i","c","l","e">>,
                     <<"a","r","t",".">>,
                     <<"a","r","t">>>>

\* (?:article|art\.?)\s*(ARTICLE_TOKEN)\.?$  under flag i
KeywordThenToken(s) ==
  FirstMatch([k \in 1..Len(ArticleKeywords) |->
    IF StartsWithCI(s, ArticleKeywords[k])
    THEN SpacesThenToken(Drop(s, Len(ArticleKeywords[k])))
    ELSE <<>>])

\* <min or more whitespace>(?:article|art\.?)\s*(ARTICLE_TOKEN)\.?$
SeparatorThenKeyword(s, min) ==
  LET n == LeadingSpaces(s)
  IN  IF n < min THEN <<>>
      ELSE FirstMatch([k \in 1..(n - min + 1) |->
                         KeywordThenToken(Drop(s, n + 1 - k))])

\* the captures <<title, token>> when the rest m of the pattern matched
WithTitle(title, m) == IF m = <<>> THEN <<>> ELSE <<title, m[1]>>

\* (.+?) : no character of the title is a line terminator
IsOneLine(s) == \A i \in 1..Len(s) : s[i] # "\n"

\* TITLE_THEN_ARTICLE: ^(.+?),\s*(?:article|art\.?)\s*(ARTICLE_TOKEN)\.?$
\* the lazy title is the shortest prefix after which the rest matches
TITLE_THEN_ARTICLE(c) ==
  FirstMatch([i \in 1..(Len(c) - 1) |->
    IF c[i + 1] = "," /\ IsOneLine(Take(c, i))
    THEN WithTitle(Take(c, i), SeparatorThenKeyword(Drop(c, i + 1), 0))
    ELSE <<>>])

\* TITLE_ARTICLE_NO_COMMA:
\* ^(.+?)\s+(?:article|art\.?)\s*(ARTICLE_TOKEN)\.?$
TITLE_ARTICLE_NO_COMMA(c) ==
  FirstMatch([i \in 1..(Len(c) - 1) |->
    IF IsOneLine(Take(c, i))
    THEN WithTitle(Take(c, i), SeparatorThenKeyword(Drop(c, i), 1))
    ELSE <<>>])

\* the link with the alternative "du" left out: \s+de\s+(.+)$
LinkThenTitleDeOnly(s) ==
  LET n == LeadingSpaces(s)
      r == Drop(s, n)
      t == Drop(r, 2)
      m == LeadingSpaces(t)
  IN  IF /\ n >= 1
         /\ Len(r) >= 2
         /\ LowerChar(r[1]) = "d"
         /\ LowerChar(r[2]) = "e"
         /\ m >= 1
         /\ Drop(t, m) # <<>>
      THEN <<Drop(t, m)>>
      ELSE <<>>

\* \s+d(?:e|u)\s+(.+)$  under flag i: the title that follows the token
LinkThenTitle(s) ==
  LET n == LeadingSpaces(s)
      r == Drop(s, n)
      t == Drop(r, 2)
      m == LeadingSpaces(t)
  IN  IF /\ n >= 1
         /\ Len(r) >= 2
         /\ LowerChar(r[1]) = "d"
         /\ LowerChar(r[2]) \in {"e", "u"}
         /\ m >= 1
      THEN FirstMatch([k \in 1..m |->
             IF Drop(t, m + 1 - k) # <<>> /\ IsOneLine(Drop(t, m + 1 - k))
             THEN <<Drop(t, m + 1 - k)>> ELSE <<>>])
      ELSE <<>>

\* the captures <<token, title>> when the rest m of the pattern matched
WithToken(token, m) == IF m = <<>> THEN <<>> ELSE <<token, m[1]>>

\* (ARTICLE_TOKEN)\s+d(?:e|u)\s+(.+)$ : the longest token first
TokenThenTitle(s) ==
  FirstMatch([k \in 1..Len(s) |->
    IF ARTICLE_TOKEN(Take(s, Len(s) + 1 - k))
    THEN WithToken(Take(s, Len(s) + 1 - k), LinkThenTitle(Drop(s, Len(s) + 1 - k)))
    ELSE <<>>])

\* \s*(ARTICLE_TOKEN)\s+d(?:e|u)\s+(.+)$
SpacesThenTokenThenTitle(s) ==
  FirstMatch([k \in 1..(LeadingSpaces(s) + 1) |->
    TokenThenTitle(Drop(s, LeadingSpaces(s) + 1 - k))])

\* ARTICLE_THEN_TITLE:
\* ^(?:article|art\.?)\s*(ARTICLE_TOKEN)\s+d(?:e|u)\s+(.+)$
ARTICLE_THEN_TITLE(c) ==
  FirstMatch([k \in 1..Len(ArticleKeywords) |->
    IF StartsWithCI(c, ArticleKeywords[k])
    THEN SpacesThenTokenThenTitle(Drop(c, Len(ArticleKeywords[k])))
    ELSE <<>>])

\* the typographic apostrophe U+2019 and the grave accent U+0060, which the
\* module's character set cannot spell, and the ASCII apostrophe
CurlyQuote == "U+2019"
GraveAccent == "U+0060"
Apostrophe == "'"

\* .replace(/[<U+2019><U+0060>]/g, "'").replace(/\s+/g, ' ').trim()
normalizeInput(value) ==
  trim(CollapseSpaces([i \in 1..Len(value) |->
                         IF value[i] \in {CurlyQuote, GraveAccent}
                         THEN Apostrophe ELSE value[i]]))

\* .replace(/[.,;:]+$/u, '')
StripTrailingPunctuation(s) ==
  LET keep == {i \in 1..Len(s) : s[i] \notin {".", ",", ";", ":"}}
  IN  IF keep = {} THEN <<>> ELSE Take(s, Max(keep))

normalizeTitle(value) == trim(CollapseSpaces(StripTrailingPunctuation(value)))

normalizeArticleRef(value) ==
  toUpperCase(SelectSeq(RemoveSpaces(value), LAMBDA c : c # "."))

\* a first, or else b
OrElse(a, b) == IF a # <<>> THEN a ELSE b

\* match[2], match[1] of ARTICLE_THEN_TITLE as <<title, token>>
TitleAndToken(m) == IF m = <<>> THEN <<>> ELSE <<m[2], m[1]>>

\* the captures <<title, token>> of the first pattern that matches, or <<>>
MatchPatterns(c) ==
  OrElse(TITLE_THEN_ARTICLE(c),
         OrElse(TitleAndToken(ARTICLE_THEN_TITLE(c)),
                TITLE_ARTICLE_NO_COMMA(c)))

\* the object tryParsePatterns returns for the captures m
NormalizedMatch(m) ==
  IF m = <<>> THEN <<>>
  ELSE <<[title |-> normalizeTitle(m[1]),
          section |-> normalizeArticleRef(m[2])]>>

\* null is <<>>; otherwise <<[title, section]>>
tryParsePatterns(c) == NormalizedMatch(MatchPatterns(c))

DigitValue(c) == IndexOf(Digits, c) - 1

\* title.match(/\b(1[89]\d{2}|20\d{2})\b/), then Number.parseInt(.., 10):
\* <<>> when there is no match (year: undefined)
yearMatch(title) ==
  LET hits == {i \in 1..(Len(title) - 3) :
                 /\ \A j \in i..(i + 3) : IsDigit(title[j])
                 /\ \/ title[i] = "1" /\ title[i + 1] \in {"8", "9"}
                    \/ title[i] = "2" /\ title[i + 1] = "0"
                 /\ i = 1 \/ ~IsWordChar(title[i - 1])
                 /\ i + 3 = Len(title) \/ ~IsWordChar(title[i + 4])}
      i == Min(hits)
  IN  IF hits = {} THEN <<>>
      ELSE <<1000 * DigitValue(title[i]) + 100 * DigitValue(title[i + 1])
             + 10 * DigitValue(title[i + 2]) + DigitValue(title[i + 3])>>

EmptyCitationError == <<"E","m","p","t","y"," ","c","i","t","a","t","i","o","n">>
CouldNotParsePrefix == 
  <<"C","o","u","l","d"," ","n","o","t"," ","p","a","r","s","e"," ","F","r","e","n","c","h"," ","c","i","t","a","t","i","o","n",":"," ","\"">>

\* the message built from the normalized text instead of the trimmed input
ErrorForNormalized(trimmed) ==
  CouldNotParsePrefix \o normalizeInput(trimmed) \o <<"\"">>

ErrorFor(trimmed) == CouldNotParsePrefix \o trimmed \o <<"\"">>

\* the ParsedCitation built from the trimmed input and the pattern result
ParsedCitation(trimmed, parsedPatterns) ==
  IF trimmed = <<>>
  THEN [valid |-> FALSE, type |-> "unknown", error |-> EmptyCitationError]
  ELSE IF parsedPatterns = <<>>
  THEN [valid |-> FALSE, type |-> "unknown", error |-> ErrorFor(trimmed)]
  ELSE [valid |-> TRUE, type |-> "statute",
        title |-> parsedPatterns[1].title,
        year |-> yearMatch(parsedPatterns[1].title),
        section |-> parsedPatterns[1].section]

\* the emptiness test applied to the argument instead of the trimmed text
parseCitationUntrimmedTest(c) ==
  ParsedCitation(c, tryParsePatterns(normalizeInput(trim(c))))

parseCitation(c) ==
  ParsedCitation(trim(c), tryParsePatterns(normalizeInput(trim(c))))

---------------------------------------------------------------------------
(* src/utils/fts-query.ts: the FTS5 query builder.                         *)

\* the character class with the period left out
FTS5_SPECIAL_CHARS_NoPeriod(c) == c \in {"(", ")", ":", "{", "}", "^", "+"}

\* FTS5_SPECIAL_CHARS = /[():{}^+.]/g
FTS5_SPECIAL_CHARS(c) == c \in {"(", ")", ":", "{", "}", "^", "+", "."}

\* raw.replace(FTS5_SPECIAL_CHARS, ' ').replace(/\s+/g, ' ').trim()
sanitizeFtsInput(r) ==
  trim(CollapseSpaces([i \in 1..Len(r) |->
                         IF FTS5_SPECIAL_CHARS(r[i]) THEN " " ELSE r[i]]))

\* \bword\b somewhere in t
HasWholeWord(t, word) ==
  \E i \in 1..(Len(t) - Len(word) + 1) :
    /\ SubSeq(t, i, i + Len(word) - 1) = word
    /\ i = 1 \/ ~IsWordChar(t[i - 1])
    /\ i + Len(word) - 1 = Len(t) \/ ~IsWordChar(t[i + Len(word)])

\* EXPLICIT_FTS_SYNTAX = /["""]|(\bAND\b)|(\bOR\b)|(\bNOT\b)|\*$/ .test(t)
EXPLICIT_FTS_SYNTAX(t) ==
  \/ \E i \in 1..Len(t) : t[i] = "\""
  \/ HasWholeWord(t, <<"A","N","D">>)
  \/ HasWholeWord(t, <<"O","R">>)
  \/ HasWholeWord(t, <<"N","O","T">>)
  \/ t # <<>> /\ t[Len(t)] = "*"

\* s.split(/\s+/)
RECURSIVE SplitSpaces(_)
SplitSpaces(s) ==
  LET at == {i \in 1..Len(s) : IsSpace(s[i])}
  IN  IF at = {} THEN <<s>>
      ELSE <<Take(s, Min(at) - 1)>>
           \o SplitSpaces(Drop(s, Min(at) - 1 + LeadingSpaces(Drop(s, Min(at) - 1))))

\* t.replace(/[^\w\sÀ-ɏ-]/g, '')
StripToken(t) ==
  SelectSeq(t, LAMBDA c : IsWordChar(c) \/ IsSpace(c) \/ IsExtendedLatin(c) \/ c = "-")

\* parts.join(sep)
RECURSIVE Join(_, _)
Join(parts, sep) ==
  IF parts = <<>> THEN <<>>
  ELSE IF Len(parts) = 1 THEN parts[1]
  ELSE parts[1] \o sep \o Join(Drop(parts, 1), sep)

\* the tokens of the plain branch: split, filter(t => t.length > 0), map
PlainTokens(trimmed) ==
  LET kept == SelectSeq(SplitSpaces(sanitizeFtsInput(trimmed)), LAMBDA t : Len(t) > 0)
  IN  [i \in 1..Len(kept) |-> StripToken(kept[i])]

buildFtsQueryVariants(q) ==
  LET trimmed == trim(q)
      clean == sanitizeFtsInput(trimmed)
      tokens == PlainTokens(trimmed)
  IN  IF EXPLICIT_FTS_SYNTAX(trimmed)
      THEN [primary |-> IF clean # <<>> THEN clean ELSE trimmed]
      ELSE IF Len(tokens) = 0
      THEN [primary |-> trimmed]
      ELSE [primary |->
              Join([i \in 1..Len(tokens) |-> <<"\"">> \o tokens[i] \o <<"\"", "*">>],
                   <<" ">>),
            fallback |->
              Join([i \in 1..Len(tokens) |-> tokens[i] \o <<"*">>],
                   <<" ", "O", "R", " ">>)]

---------------------------------------------------------------------------
(* Inputs.                                                                 *)

MaxRawLen == 4

\* class letters in both cases, another letter, the two marks, whitespace,
\* a digit and the hyphen
RawAlphabet == {"L", "r", "B", ".", "*", " ", "1", "-"}
RawInputs == StringsUpTo(RawAlphabet, MaxRawLen) \cup {Undefined}

NoResult == <<>>

\* a database without rows
EmptyDb == [legal_documents |-> {}, legal_provisions |-> {}]

\* no database is open and nothing has been looked up
NoLookup ==
  /\ db = EmptyDb
  /\ inputId = <<>> /\ candidates = NoResult
  /\ resolved = NoResult /\ validation = NoResult

lookupVars == <<db, inputId, candidates, resolved, validation>>

formatVars == <<format, formatted, displayTitle>>
registryVars == <<context, allTools, listed, request, response>>
stepVars == <<vstate, queries, bestDoc>>
laterVars == <<formatVars, registryVars, stepVars>>

\* nothing is being formatted
NoFormat == format = "" /\ formatted = NoResult /\ displayTitle = NoResult

\* no server has tools registered
NoRegistry ==
  /\ context = NoResult /\ allTools = NoResult /\ listed = NoResult
  /\ request = NoResult /\ response = NoResult

\* no validateCitation call is being followed step by step
NoSteps == vstate = "" /\ queries = <<>> /\ bestDoc = NoResult

NoLater == NoFormat /\ NoRegistry /\ NoSteps

InitNormalizer ==
  /\ op = "init"
  /\ NoLater
  /\ raw \in RawInputs
  /\ normalized = NoResult
  /\ citation = <<>> /\ parsed = NoResult
  /\ query = <<>> /\ sanitized = NoResult /\ variants = NoResult
  /\ NoLookup

NormalizeArticleNum ==
  /\ op' = "normalizeArticleNum"
  /\ normalized' = normalizeArticleNum(raw)
  /\ UNCHANGED <<raw, citation, parsed, query, sanitized, variants>>
  /\ UNCHANGED lookupVars
  /\ UNCHANGED laterVars

NextNormalizer == NormalizeArticleNum

SpecNormalizer == InitNormalizer /\ [][NextNormalizer]_vars

---------------------------------------------------------------------------
(* Citations.  Three families: every short title with a few tokens, every  *)
(* short token with a few titles, one title and token with every           *)
(* separator, keyword and ending; each in the title-first, article-first   *)
(* and comma-less word order.  A fourth family holds short free text.      *)

MaxTitleLen == 3
MaxTokenLen == 3
MaxFreeLen == 3

TitleAlphabet == {"C", "p", " ", ".", ";", ","}
TokenAlphabet == {"L", "r", "B", "a", ".", " ", "1", "-"}
FreeAlphabet == {"x", " ", "\t", ",", ".", "1", GraveAccent}

Titles == StringsUpTo(TitleAlphabet, MaxTitleLen)
Tokens == StringsUpTo(TokenAlphabet, MaxTokenLen)

SomeTitles == {<<"C","p">>,
    <<"L","o","i"," ","1","9","7","8">>,
    <<"C",".","p">>}
SomeTokens == {<<"1">>,
    <<"L","."," ","1","-","1">>,
    <<"r","1","-","a">>}

TitleFirstFrame == <<","," ","a","r","t","."," ">>
TitleFirst(T, K) == T \o TitleFirstFrame \o K
ArticleFirst(T, K) == <<"A","r","t","i","c","l","e"," ">> \o K \o <<" ","d","u"," ">> \o T
NoComma(T, K) == T \o <<" ","a","r","t","."," ">> \o K

Separators == {<<",">>,
    <<","," ">>,
    <<" ">>,
    <<" ",","," ">>,
    <<",","\t"," ">>,
    <<"."," ">>}
KeywordSpellings == {<<"a","r","t">>,
    <<"a","r","t",".">>,
    <<"a","r","t","i","c","l","e">>,
    <<"A","r","t",".">>,
    <<"A","R","T","I","C","L","E">>,
    <<"a","r","t","i","c">>,
    <<"a","r","t",".",".">>}
Gaps == {<<>>, <<" ">>}
Endings == {<<>>,
    <<".">>,
    <<" ">>,
    <<".",".">>,
    <<"-">>}
Links == {<<" ","d","u"," ">>,
    <<" ","d","e"," ">>,
    <<" ","D","U"," ">>,
    <<" ","d"," ">>,
    <<" ","d","u">>,
    <<"d","u"," ">>,
    <<" "," ","d","e","\t">>,
    <<" ","d","e","s"," ">>}

Framed ==
  {f[1] \o f[2] \o f[3] \o f[4] \o f[5] \o f[6] :
     f \in {<<"C","p">>} \X Separators \X KeywordSpellings \X Gaps \X {<<"1","-","1">>} \X Endings}
  \cup
  {f[1] \o f[2] \o f[3] \o f[4] \o f[5] :
     f \in KeywordSpellings \X Gaps \X {<<"1","-","1">>} \X Links \X {<<"C","p">>}}

Citations ==
  {TitleFirst(T, K) : T \in Titles, K \in SomeTokens}
  \cup {ArticleFirst(T, K) : T \in Titles, K \in SomeTokens}
  \cup {NoComma(T, K) : T \in Titles, K \in SomeTokens}
  \cup {TitleFirst(T, K) : T \in SomeTitles, K \in Tokens}
  \cup {ArticleFirst(T, K) : T \in SomeTitles, K \in Tokens}
  \cup {NoComma(T, K) : T \in SomeTitles, K \in Tokens}
  \cup Framed
  \cup StringsUpTo(FreeAlphabet, MaxFreeLen)

InitParser ==
  /\ op = "init"
  /\ NoLater
  /\ raw = <<>> /\ normalized = NoResult
  /\ citation \in Citations
  /\ parsed = NoResult
  /\ query = <<>> /\ sanitized = NoResult /\ variants = NoResult
  /\ NoLookup

ParseCitation ==
  /\ op' = "parseCitation"
  /\ parsed' = parseCitation(citation)
  /\ UNCHANGED <<raw, normalized, citation, query, sanitized, variants>>
  /\ UNCHANGED lookupVars
  /\ UNCHANGED laterVars

NextParser == ParseCitation

SpecParser == InitParser /\ [][NextParser]_vars

---------------------------------------------------------------------------
(* Search queries: every short string over the characters the builder      *)
(* tells apart, and every short sequence of words, operators and marks.    *)

MaxQueryLen == 2
MaxQueryPieces == 3

QueryAlphabet == {"a", "1", "_", "é", "-", "!", " ", "\t", "\"", "*",
                  "(", ")", ":", "{", "}", "^", "+", "."}
QueryPieces == {<<"a">>,
    <<"é","-","b">>,
    <<" ">>,
    <<"(">>,
    <<".">>,
    <<"\"">>,
    <<"*">>,
    <<"!">>,
    <<"A","N","D">>,
    <<"O","R">>,
    <<"N","O","T">>}

Queries ==
  StringsUpTo(QueryAlphabet, MaxQueryLen)
  \cup {Flatten(ps) : ps \in StringsUpTo(QueryPieces, MaxQueryPieces)}

InitFts ==
  /\ op = "init"
  /\ NoLater
  /\ raw = <<>> /\ normalized = NoResult
  /\ citation = <<>> /\ parsed = NoResult
  /\ query \in Queries
  /\ sanitized = NoResult /\ variants = NoResult
  /\ NoLookup

SanitizeFtsInput ==
  /\ op' = "sanitizeFtsInput"
  /\ sanitized' = sanitizeFtsInput(query)
  /\ UNCHANGED <<raw, normalized, citation, parsed, query, variants>>
  /\ UNCHANGED lookupVars
  /\ UNCHANGED laterVars

BuildFtsQueryVariants ==
  /\ op' = "buildFtsQueryVariants"
  /\ variants' = buildFtsQueryVariants(query)
  /\ UNCHANGED <<raw, normalized, citation, parsed, query, sanitized>>
  /\ UNCHANGED lookupVars
  /\ UNCHANGED laterVars

NextFts == SanitizeFtsInput \/ BuildFtsQueryVariants

SpecFts == InitFts /\ [][NextFts]_vars

---------------------------------------------------------------------------
(* The statute identifier resolver: statuteIdCandidates and                *)
(* resolveExistingStatuteId, over the legal_documents table.               *)

\* JavaScript null, SQL NULL
Null == <<"null">>

\* the elements of a sequence in order of first occurrence: [...new Set(s)]
RECURSIVE SetOrder(_)
SetOrder(s) ==
  IF s = <<>> THEN <<>>
  ELSE LET front == SetOrder(Take(s, Len(s) - 1))
       IN  IF s[Len(s)] \in Range(front) THEN front ELSE Append(front, s[Len(s)])

\* .replace(/\s+/g, '-')
SpacesToHyphen(s) ==
  LET c == CollapseSpaces(s)
  IN  [i \in 1..Len(c) |-> IF c[i] = " " THEN "-" ELSE c[i]]

\* .replace(/-/g, ' ')
HyphensToSpace(s) == [i \in 1..Len(s) |-> IF s[i] = "-" THEN " " ELSE s[i]]

statuteIdCandidates(id) ==
  LET trimmed == toLowerCase(trim(id))
  IN  SetOrder(<<trimmed, trim(id)>>
               \o (IF " " \in Range(trimmed) THEN <<SpacesToHyphen(trimmed)>> ELSE <<>>)
               \o (IF "-" \in Range(trimmed) THEN <<HyphensToSpace(trimmed)>> ELSE <<>>))

\* SQLite LIKE folds the case of ASCII letters only
LikeFold(c) == IF IsUpper(c) THEN LowerChar(c) ELSE c

\* text LIKE pattern: % stands for any text, _ for any one character
RECURSIVE Like(_, _)
Like(text, pattern) ==
  IF pattern = <<>> THEN text = <<>>
  ELSE IF pattern[1] = "%"
       THEN \E k \in 0..Len(text) : Like(Drop(text, k), Drop(pattern, 1))
       ELSE /\ text # <<>>
            /\ pattern[1] = "_" \/ LikeFold(pattern[1]) = LikeFold(text[1])
            /\ Like(Drop(text, 1), Drop(pattern, 1))

\* SELECT id FROM legal_documents WHERE id = ? LIMIT 1
IdsEqualTo(database, value) ==
  {d.id : d \in {r \in database.legal_documents : r.id = value}}

\* SELECT id FROM legal_documents WHERE title LIKE ? LIMIT 1, with the
\* parameter '%' + inputId + '%': each matching row may be the one returned
IdsByTitle(database, id) ==
  {d.id : d \in {r \in database.legal_documents :
                   Like(r.title, <<"%">> \o id \o <<"%">>)}}

OrNull(ids) == IF ids = {} THEN {Null} ELSE ids

\* the title lookup tried before the two id lookups
resolveExistingStatuteIdTitleFirst(database, id) ==
  IF IdsByTitle(database, id) # {} THEN IdsByTitle(database, id)
  ELSE IF IdsEqualTo(database, id) # {} THEN IdsEqualTo(database, id)
  ELSE OrNull(IdsEqualTo(database, toLowerCase(trim(id))))

\* the values resolveExistingStatuteId can return
resolveExistingStatuteId(database, id) ==
  LET lower == toLowerCase(trim(id))
  IN  IF IdsEqualTo(database, id) # {} THEN IdsEqualTo(database, id)
      ELSE IF lower # id /\ IdsEqualTo(database, lower) # {}
           THEN IdsEqualTo(database, lower)
           ELSE OrNull(IdsByTitle(database, id))

---------------------------------------------------------------------------
(* Resolver inputs: databases of at most MaxDocs documents with distinct   *)
(* ids, and every short identifier text.                                   *)

MaxDocs == 2
MaxIdLen == 3

StoredIds == {<<"a">>, <<"a","a">>, <<"a","-","a">>}
StoredTitles == {<<"A"," ","a">>, <<"a","a">>, <<"-">>}
IdAlphabet == {"a", "A", "-", " ", "%"}

Document(id, title, short_name, status) ==
  [id |-> id, title |-> title, short_name |-> short_name, status |-> status]

\* id is the primary key of legal_documents
DistinctIds(docs) == \A d, e \in docs : d.id = e.id => d = e

DocumentSets(rows) ==
  {docs \in SUBSET rows : Cardinality(docs) <= MaxDocs /\ DistinctIds(docs)}

ResolverDocuments ==
  {Document(i, t, Null, "in_force") : i \in StoredIds, t \in StoredTitles}

InitResolver ==
  /\ op = "init"
  /\ NoLater
  /\ raw = <<>> /\ normalized = NoResult
  /\ citation = <<>> /\ parsed = NoResult
  /\ query = <<>> /\ sanitized = NoResult /\ variants = NoResult
  /\ db \in {[legal_documents |-> docs, legal_provisions |-> {}] :
               docs \in DocumentSets(ResolverDocuments)}
  /\ inputId \in StringsUpTo(IdAlphabet, MaxIdLen)
  /\ candidates = NoResult /\ resolved = NoResult /\ validation = NoResult

textVars == <<raw, normalized, citation, parsed, query, sanitized, variants>>

StatuteIdCandidates ==
  /\ op' = "statuteIdCandidates"
  /\ candidates' = statuteIdCandidates(inputId)
  /\ UNCHANGED <<db, inputId, resolved, validation>>
  /\ UNCHANGED textVars
  /\ UNCHANGED laterVars

ResolveExistingStatuteId ==
  /\ op' = "resolveExistingStatuteId"
  /\ resolved' \in resolveExistingStatuteId(db, inputId)
  /\ UNCHANGED <<db, inputId, candidates, validation>>
  /\ UNCHANGED textVars
  /\ UNCHANGED laterVars

NextResolver == StatuteIdCandidates \/ ResolveExistingStatuteId

SpecResolver == InitResolver /\ [][NextResolver]_vars

---------------------------------------------------------------------------
(* The citation validator: validateCitation, normalizeLookup and           *)
(* buildSectionCandidates, over legal_documents and legal_provisions.      *)

\* value.normalize('NFD').replace(/\p{M}/gu, ''), one character: the base
\* letter of an accented letter
StripAccent(c) == IF c = "é" THEN "e" ELSE IF c = "É" THEN "E" ELSE c

\* normalizeLookup with the accents kept (and so turned into separators)
normalizeLookupKeepingAccents(value) ==
  trim(CollapseSpaces([i \in 1..Len(value) |->
         IF IsLower(LowerChar(value[i])) \/ IsDigit(value[i])
         THEN LowerChar(value[i]) ELSE " "]))

\* NFD, strip the combining marks, lower-case, [^a-z0-9]+ to one space, trim
normalizeLookup(value) ==
  trim(CollapseSpaces([i \in 1..Len(value) |->
         IF IsAsciiLetter(StripAccent(value[i])) \/ IsDigit(value[i])
         THEN LowerChar(StripAccent(value[i])) ELSE " "]))

\* one candidate field of a document against the target
FieldScore(candidate, target) ==
  IF candidate = <<>> THEN 0
  ELSE IF candidate = target THEN 4
  ELSE IF Contains(candidate, target) THEN 3
  ELSE IF Contains(target, candidate) THEN 2
  ELSE 0

\* const candidates = [doc.title, doc.short_name ?? '', doc.id]; empty fields
\* and fields with an empty lookup form are skipped
DocScore(doc, target) ==
  Max({FieldScore(normalizeLookup(doc.title), target),
       IF doc.short_name = Null THEN 0
       ELSE FieldScore(normalizeLookup(doc.short_name), target),
       FieldScore(normalizeLookup(doc.id), target)})

\* the rows that can end the loop as bestDoc: SELECT without ORDER BY returns
\* the rows in an unspecified order and the first row with the highest score
\* is kept, so every row with the highest score can be the one
RowsWithScore(docs, target, bestScore) ==
  IF bestScore > 0 THEN {d \in docs : DocScore(d, target) = bestScore} ELSE {}

BestDocs(docs, target) ==
  RowsWithScore(docs, target, Max({DocScore(d, target) : d \in docs} \cup {-1}))

\* section.replace(/\s+/g, '').replace(/\./g, '').toUpperCase()
SectionKey(section) ==
  toUpperCase(SelectSeq(section, LAMBDA c : ~IsSpace(c) /\ c # "."))

\* normalized.replace(/^ART/i, '')
WithoutArtPrefix(s) == IF StartsWithCI(s, <<"a", "r", "t">>) THEN Drop(s, 3) ELSE s

\* withoutArtPrefix.match(/^([A-Z])(\d.*)$/): the candidate letterMatch[1] +
\* letterMatch[2], which is the matched text again
LetterForm(s) ==
  IF Len(s) >= 2 /\ IsUpper(s[1]) /\ IsDigit(s[2])
       /\ \A i \in 3..Len(s) : s[i] # "\n"
  THEN {Take(s, 1) \o Drop(s, 1)} ELSE {}

\* the set of candidates, without the empty string (filter(Boolean))
buildSectionCandidates(section) ==
  ({SectionKey(section), WithoutArtPrefix(SectionKey(section))}
     \cup LetterForm(WithoutArtPrefix(SectionKey(section)))) \ {<<>>}

\* value.startsWith('ART') ? value.toLowerCase() : ('art' + value).toLowerCase()
ProvisionRefCandidate(value) ==
  IF Len(value) >= 3 /\ Take(value, 3) = <<"A", "R", "T">>
  THEN toLowerCase(value)
  ELSE <<"a", "r", "t">> \o toLowerCase(value)

\* SQLite upper() and lower() change ASCII letters only
SqlUpper(s) == [i \in 1..Len(s) |-> IF IsLower(s[i]) THEN UpperChar(s[i]) ELSE s[i]]
SqlLower(s) == [i \in 1..Len(s) |-> IF IsUpper(s[i]) THEN LowerChar(s[i]) ELSE s[i]]

\* the lookup without the condition on document_id
ProvisionFoundInAnyDocument(rows, documentId, sectionCandidates) ==
  \E r \in rows :
    \/ SqlUpper(SelectSeq(r.section, LAMBDA c : c # ".")) \in sectionCandidates
    \/ SqlLower(r.provision_ref)
         \in {ProvisionRefCandidate(v) : v \in sectionCandidates}

\* SELECT 1 FROM legal_provisions WHERE document_id = ? AND
\*   (upper(replace(section, '.', '')) IN (...) OR lower(provision_ref) IN (...))
ProvisionFound(rows, documentId, sectionCandidates) ==
  \E r \in rows :
    /\ r.document_id = documentId
    /\ \/ SqlUpper(SelectSeq(r.section, LAMBDA c : c # ".")) \in sectionCandidates
       \/ SqlLower(r.provision_ref)
            \in {ProvisionRefCandidate(v) : v \in sectionCandidates}

InvalidFormatWarning == 
  <<"I","n","v","a","l","i","d"," ","c","i","t","a","t","i","o","n"," ","f","o","r","m","a","t">>
NoTitleWarning == 
  <<"C","i","t","a","t","i","o","n"," ","d","o","e","s"," ","n","o","t"," ","i","n","c","l","u","d","e"," ","a"," ","r","e","c","o","g","n","i","z","a","b","l","e"," ","s","t","a","t","u","t","e"," ","t","i","t","l","e">>
RepealedWarning == 
  <<"T","h","i","s"," ","s","t","a","t","u","t","e"," ","h","a","s"," ","b","e","e","n"," ","r","e","p","e","a","l","e","d">>

\* 'Document "' + title + '" not found in database'
DocumentNotFoundWarning(title) ==
  <<"D","o","c","u","m","e","n","t"," ","\"">> \o title \o 
  <<"\""," ","n","o","t"," ","f","o","u","n","d"," ","i","n"," ","d","a","t","a","b","a","s","e">>

\* 'Article ' + section + ' not found in ' + doc.title
ArticleNotFoundWarning(section, title) ==
  <<"A","r","t","i","c","l","e"," ">> \o section \o <<" ","n","o","t"," ","f","o","u","n","d"," ","i","n"," ">> \o title

\* the result returned with provisionExists still at its initial value
RejectedWithProvision(p, warning) ==
  [citation |-> p, document_exists |-> FALSE, provision_exists |-> TRUE,
   warnings |-> <<warning>>]

\* the result of the three returns that find no document
RejectedResult(p, warning) ==
  [citation |-> p, document_exists |-> FALSE, provision_exists |-> FALSE,
   warnings |-> <<warning>>]

\* the article warning pushed before the repeal warning
ResolvedWarningsArticleFirst(doc, section, provisionExists) ==
  (IF provisionExists THEN <<>> ELSE <<ArticleNotFoundWarning(section, doc.title)>>)
  \o (IF doc.status = "repealed" THEN <<RepealedWarning>> ELSE <<>>)

\* warnings.push in program order: the repeal warning, then the article one
ResolvedWarnings(doc, section, provisionExists) ==
  (IF doc.status = "repealed" THEN <<RepealedWarning>> ELSE <<>>)
  \o (IF provisionExists THEN <<>> ELSE <<ArticleNotFoundWarning(section, doc.title)>>)

\* a repealed document reported as having no provision
ResolvedResultRepealedFatal(p, doc, provisionExists) ==
  [citation |-> p, document_exists |-> TRUE,
   provision_exists |-> provisionExists /\ doc.status # "repealed",
   document_title |-> doc.title, status |-> doc.status,
   warnings |-> ResolvedWarnings(doc, p.section, provisionExists)]

ResolvedResult(p, doc, provisionExists) ==
  [citation |-> p, document_exists |-> TRUE, provision_exists |-> provisionExists,
   document_title |-> doc.title, status |-> doc.status,
   warnings |-> ResolvedWarnings(doc, p.section, provisionExists)]

\* let provisionExists = true; if (parsed.section) { ... provisionExists = !!prov }
ProvisionExists(database, doc, section) ==
  IF section = <<>> THEN TRUE
  ELSE ProvisionFound(database.legal_provisions, doc.id,
                      buildSectionCandidates(section))

\* the results once the loop has ended with the rows best as possible bestDoc
ResultsFor(database, p, best) ==
  IF best = {}
  THEN {RejectedResult(p, DocumentNotFoundWarning(p.title))}
  ELSE {ResolvedResult(p, d, ProvisionExists(database, d, p.section)) : d \in best}

\* the results for the ParsedCitation p
ValidationResults(database, p) ==
  IF ~p.valid
  THEN {RejectedResult(p, IF "error" \in DOMAIN p THEN p.error
                          ELSE InvalidFormatWarning)}
  ELSE IF p.title = <<>>
  THEN {RejectedResult(p, NoTitleWarning)}
  ELSE ResultsFor(database, p,
                  BestDocs(database.legal_documents, normalizeLookup(p.title)))

\* the values validateCitation can return
validateCitation(database, c) == ValidationResults(database, parseCitation(c))

---------------------------------------------------------------------------
(* Validator inputs: databases of at most MaxDocs documents and at most    *)
(* MaxProvisions provisions, each provision of a stored document, and      *)
(* citations that resolve exactly, partially, with and without accents,    *)
(* not at all, or name a document only.                                    *)

MaxProvisions == 2

ValidatorIds == {<<"c","p">>, <<"c","d">>}
ValidatorTitles == {<<"C","p">>, <<"C","é"," ","d">>}
ValidatorShortNames == {Null, <<"C","p">>}
\* a status that is not repealed and the repealed one, of the four the schema allows
Statuses == {"in_force", "repealed"}

ValidatorDocuments ==
  {Document(i, t, n, s) :
     i \in ValidatorIds, t \in ValidatorTitles, n \in ValidatorShortNames, s \in Statuses}

Provision(document_id, section, provision_ref) ==
  [document_id |-> document_id, section |-> section, provision_ref |-> provision_ref]

StoredArticles == {<<<<"1">>, <<"a","r","t","1">>>>, <<<<"L","."," ","1","-","1">>, <<"a","r","t","l","1","-","1">>>>, <<<<"L","1","-","1">>, <<"a","r","t","1","-","1">>>>}

\* UNIQUE(document_id, provision_ref)
DistinctRefs(rows) ==
  \A r, q \in rows :
    (r.document_id = q.document_id /\ r.provision_ref = q.provision_ref) => r = q

\* document_id REFERENCES legal_documents(id)
ProvisionSets(docs) ==
  {rows \in SUBSET {Provision(d.id, a[1], a[2]) : d \in docs, a \in StoredArticles} :
     Cardinality(rows) <= MaxProvisions /\ DistinctRefs(rows)}

Databases ==
  UNION {{[legal_documents |-> docs, legal_provisions |-> rows] :
            rows \in ProvisionSets(docs)} :
         docs \in DocumentSets(ValidatorDocuments)}

ValidatorCitations == {
    <<"C","p",","," ","a","r","t","."," ","1">>,
    <<"C","p",","," ","a","r","t","."," ","L","."," ","1","-","1">>,
    <<"C","p",","," ","a","r","t","."," ","2">>,
    <<"C","é"," ","d",","," ","a","r","t","."," ","1">>,
    <<"C","e"," ","d",","," ","a","r","t","."," ","1">>,
    <<"C","E","-","D",","," ","a","r","t","."," ","L","1","-","1">>,
    <<"A","r","t","i","c","l","e"," ","1"," ","d","u"," ","C","p">>,
    <<"C","p"," ","a","r","t","."," ","l","."," ","1","-","1">>,
    <<"C",","," ","a","r","t","."," ","1">>,
    <<"C","p"," ","C","é"," ","d",","," ","a","r","t","."," ","1">>,
    <<"X","y",","," ","a","r","t","."," ","1">>,
    <<"-",","," ","a","r","t","."," ","1">>,
    <<".",","," ","a","r","t","."," ","1">>,
    <<"C","p">>,
    <<"C","é"," ","d">>,
    <<"C","e"," ","d">>,
    <<"c","p"," ","a","r","t">>,
    <<" ">>,
    <<>>}

InitValidator ==
  /\ op = "init"
  /\ NoLater
  /\ raw = <<>> /\ normalized = NoResult
  /\ citation \in ValidatorCitations
  /\ parsed = NoResult
  /\ query = <<>> /\ sanitized = NoResult /\ variants = NoResult
  /\ db \in Databases
  /\ inputId = <<>> /\ candidates = NoResult
  /\ resolved = NoResult /\ validation = NoResult

ValidateCitation ==
  /\ op' = "validateCitation"
  /\ validation' \in validateCitation(db, citation)
  /\ UNCHANGED <<db, inputId, candidates, resolved>>
  /\ UNCHANGED textVars
  /\ UNCHANGED laterVars

NextValidator == ValidateCitation

SpecValidator == InitValidator /\ [][NextValidator]_vars

---------------------------------------------------------------------------
(* The citation formatter (formatCitation, buildArticleRef) and the        *)
(* display title of an article (articleTitle).                             *)

\* section.replace(/\s+/g, '').replace(/\./g, '').toUpperCase()
ArticleRefKey(section) ==
  toUpperCase(SelectSeq(section, LAMBDA c : ~IsSpace(c) /\ c # "."))

\* normalized.match(/^([A-Z])(\d.*)$/)
IsPrefixed(s) ==
  /\ Len(s) >= 2 /\ IsUpper(s[1]) /\ IsDigit(s[2])
  /\ \A i \in 3..Len(s) : s[i] # "\n"

buildArticleRef(section) ==
  IF IsPrefixed(ArticleRefKey(section))
  THEN Take(ArticleRefKey(section), 1) \o <<".", " ">> \o Drop(ArticleRefKey(section), 1)
  ELSE ArticleRefKey(section)

\* a field of a ParsedCitation that is undefined or the empty string
Falsy(p, field) == field \notin DOMAIN p \/ p[field] = <<>>

ArtPrefix == <<"a","r","t","."," ">>

\* title + ', art. ' + article, or 'art. ' + article without a title
FullForm(p, article) ==
  IF Falsy(p, "title") THEN ArtPrefix \o article
  ELSE p.title \o <<",", " ">> \o ArtPrefix \o article

\* title + ' art. ' + article, or 'art. ' + article without a title
ShortForm(p, article) ==
  IF Falsy(p, "title") THEN ArtPrefix \o article
  ELSE p.title \o <<" ">> \o ArtPrefix \o article

\* the switch over format; an omitted format is 'full'
StyleSwitch(p, style, article) ==
  IF style = "full" \/ style = "undefined" THEN FullForm(p, article)
  ELSE IF style = "short" THEN ShortForm(p, article)
  ELSE IF style = "pinpoint" THEN ArtPrefix \o article
  ELSE FullForm(p, article)

\* the switch with a default branch that falls back to the short form
formatCitationDefaultShort(p, style) ==
  IF ~p.valid \/ Falsy(p, "section") THEN <<>>
  ELSE IF style \in {"full", "undefined", "short", "pinpoint"}
       THEN StyleSwitch(p, style, buildArticleRef(p.section))
       ELSE ShortForm(p, buildArticleRef(p.section))

formatCitation(p, style) ==
  IF ~p.valid \/ Falsy(p, "section") THEN <<>>
  ELSE StyleSwitch(p, style, buildArticleRef(p.section))

ArticleWord == <<"A","r","t","i","c","l","e"," ">>

\* normalized.match(/^([LRDA])(\d)/i)
HasClassPrefix(s) == Len(s) >= 2 /\ IsClassLetter(s[1]) /\ IsDigit(s[2])

\* 'Article ' + prefixNames[prefix] + ' ' + normalized.slice(1), or
\* 'Article ' + normalized
TitleFor(normalizedNum) ==
  IF HasClassPrefix(normalizedNum)
  THEN ArticleWord \o <<UpperChar(normalizedNum[1]), ".", " ">> \o Drop(normalizedNum, 1)
  ELSE ArticleWord \o normalizedNum

articleTitle(num) == TitleFor(normalizeArticleNum(num))

---------------------------------------------------------------------------
(* Formatter inputs: every short token in an accepted citation with a      *)
(* title, and a few tokens in every shape of ParsedCitation, each with     *)
(* every format.                                                           *)

Formats == {"full", "short", "pinpoint", "long", "undefined"}

FormatTitles == {<<>>, <<"X">>}

\* the ParsedCitation values with the section K, or with none
ParsedShapes(K) ==
  {[valid |-> v, type |-> "statute", title |-> t, section |-> K] :
     v \in BOOLEAN, t \in FormatTitles}
  \cup {[valid |-> v, type |-> "statute", section |-> K] : v \in BOOLEAN}
  \cup {[valid |-> v, type |-> "statute", title |-> t] : v \in BOOLEAN, t \in FormatTitles}
  \cup {[valid |-> FALSE, type |-> "unknown", error |-> EmptyCitationError]}

FormatTokens == SomeTokens \cup {<<>>, <<"B","1">>}

InitFormatter ==
  /\ op = "init"
  /\ normalized = NoResult
  /\ citation = <<>>
  /\ query = <<>> /\ sanitized = NoResult /\ variants = NoResult
  /\ NoLookup /\ NoRegistry /\ NoSteps
  /\ \/ raw \in Tokens
        /\ parsed = [valid |-> TRUE, type |-> "statute", title |-> <<"X">>, section |-> raw]
     \/ raw \in FormatTokens /\ parsed \in ParsedShapes(raw)
  /\ format \in Formats
  /\ formatted = NoResult /\ displayTitle = NoResult

FormatCitation ==
  /\ op' = "formatCitation"
  /\ formatted' = formatCitation(parsed, format)
  /\ UNCHANGED <<raw, normalized, citation, parsed, query, sanitized, variants>>
  /\ UNCHANGED <<format, displayTitle>>
  /\ UNCHANGED <<lookupVars, registryVars, stepVars>>

ArticleTitle ==
  /\ op' = "articleTitle"
  /\ displayTitle' = articleTitle(raw)
  /\ UNCHANGED <<raw, normalized, citation, parsed, query, sanitized, variants>>
  /\ UNCHANGED <<format, formatted>>
  /\ UNCHANGED <<lookupVars, registryVars, stepVars>>

NextFormatter == FormatCitation \/ ArticleTitle

SpecFormatter == InitFormatter /\ [][NextFormatter]_vars

---------------------------------------------------------------------------
(* The tool registry: buildTools and the two request handlers that         *)
(* registerTools installs.  A tool is known by its name; what the tool     *)
(* implementation does with its arguments (return a result, return a value *)
(* JSON.stringify rejects, throw) is part of the request.                  *)

ABOUT_TOOL == "about"

\* the names of TOOLS, in the order of the array
TOOLS == <<"search_legislation",
          "get_provision",
          "list_sources",
          "validate_citation",
          "build_legal_stance",
          "format_citation",
          "check_currency",
          "get_eu_basis",
          "get_french_implementations",
          "search_eu_implementations",
          "get_provision_eu_basis",
          "validate_eu_compliance">>

\* context ? [...TOOLS, ABOUT_TOOL] : TOOLS
buildTools(ctx) == IF ctx # Undefined THEN Append(TOOLS, ABOUT_TOOL) ELSE TOOLS

\* JSON.stringify(result, null, 2), of a result named by its text
Stringify(result) == <<"{", "\n", " ", " ">> \o result \o <<"\n", "}">>

TextContent(text) == <<[type |-> "text", text |-> text]>>

ErrorResponse(text) == [content |-> TextContent(text), isError |-> TRUE]

ResultResponse(result) == [content |-> TextContent(Stringify(result))]

ErrorPrefix == <<"E","r","r","o","r",":"," ">>

\* the characters of a requested name
NameText(name) ==
  CASE name = "" -> <<>>
    [] name = "About" -> <<"A","b","o","u","t">>
    [] name = "delete_everything" -> <<"d","e","l","e","t","e","_","e","v","e","r","y","t","h","i","n","g">>
    [] OTHER -> <<name>>   \* a tool name, kept whole

\* 'Error: Unknown tool "' + name + '".'
UnknownToolText(name) ==
  <<"E","r","r","o","r",":"," ","U","n","k","n","o","w","n"," ","t","o","o","l"," ","\"">> \o NameText(name) \o <<"\"",".">>

AboutNotConfiguredText ==
  <<"A","b","o","u","t"," ","t","o","o","l"," ","n","o","t"," ","c","o","n","f","i","g","u","r","e","d",".">>

\* the cases of the switch that call a tool implementation
IsDispatched(name, ctx) ==
  name \in Range(TOOLS) \/ (name = ABOUT_TOOL /\ ctx # Undefined)

\* try { result = await tool(...); return { content: JSON.stringify(result) } }
\* catch (error) { return { content: 'Error: ' + message, isError: true } }
Dispatched(outcome) ==
  IF outcome.kind = "returns" THEN ResultResponse(outcome.value)
  ELSE ErrorResponse(ErrorPrefix \o outcome.value)

\* the handler that lets an exception of the tool escape
CallToolHandlerWithoutCatch(ctx, name, outcome) ==
  IF IsDispatched(name, ctx)
  THEN IF outcome.kind = "returns" THEN ResultResponse(outcome.value)
       ELSE [thrown |-> outcome.value]
  ELSE IF name = ABOUT_TOOL THEN ErrorResponse(AboutNotConfiguredText)
  ELSE ErrorResponse(UnknownToolText(name))

\* the handler with the case 'about' left out of the switch
CallToolHandlerWithoutAbout(ctx, name, outcome) ==
  IF name \in Range(TOOLS) THEN Dispatched(outcome)
  ELSE ErrorResponse(UnknownToolText(name))

\* server.setRequestHandler(CallToolRequestSchema, ...)
CallToolHandler(ctx, name, outcome) ==
  IF IsDispatched(name, ctx) THEN Dispatched(outcome)
  ELSE IF name = ABOUT_TOOL THEN ErrorResponse(AboutNotConfiguredText)
  ELSE ErrorResponse(UnknownToolText(name))

---------------------------------------------------------------------------
(* Registry inputs: a server with or without an about-context, and calls   *)
(* of every tool name, of names that are no tool, with every outcome of    *)
(* the tool implementation.                                                *)

AboutContexts == {Undefined, <<"1.0.0", "test-fingerprint", "2026-02-16T00:00:00Z">>}

RequestNames == Range(TOOLS) \cup {ABOUT_TOOL, "", "About", "delete_everything"}

\* a tool implementation returns a result, returns a value JSON.stringify
\* throws on, or throws; value is the result, or the message of the exception
Outcomes ==
  {[kind |-> "returns", value |-> <<"\"","r","e","s","u","l","t","s","\"",":"," ","[","]">>],
   [kind |-> "unserializable", value |-> <<"C","o","n","v","e","r","t","i","n","g"," ","c","i","r","c","u","l","a","r"," ","s","t","r","u","c","t","u","r","e"," ","t","o"," ","J","S","O","N">>],
   [kind |-> "throws", value |-> <<"n","o"," ","s","u","c","h"," ","t","a","b","l","e",":"," ","l","e","g","a","l","_","d","o","c","u","m","e","n","t","s">>],
   [kind |-> "throws", value |-> <<>>]}

InitRegistry ==
  /\ op = "init"
  /\ raw = <<>> /\ normalized = NoResult
  /\ citation = <<>> /\ parsed = NoResult
  /\ query = <<>> /\ sanitized = NoResult /\ variants = NoResult
  /\ NoLookup /\ NoFormat /\ NoSteps
  /\ NoRegistry

\* registerTools(server, db, context): both handlers are installed, replacing
\* the ones of an earlier registration
RegisterTools ==
  /\ op' = "registerTools"
  /\ context' \in AboutContexts
  /\ allTools' = buildTools(context')
  /\ listed' = NoResult /\ request' = NoResult /\ response' = NoResult
  /\ UNCHANGED <<textVars, lookupVars, formatVars, stepVars>>

\* the list-tools handler: return { tools: allTools }
ListTools ==
  /\ allTools # NoResult
  /\ op' = "listTools"
  /\ listed' = allTools
  /\ UNCHANGED <<context, allTools, request, response>>
  /\ UNCHANGED <<textVars, lookupVars, formatVars, stepVars>>

\* the call-tool handler
CallTool ==
  /\ allTools # NoResult
  /\ op' = "callTool"
  /\ request' \in [name : RequestNames, outcome : Outcomes]
  /\ response' = CallToolHandler(context, request'.name, request'.outcome)
  /\ UNCHANGED <<context, allTools, listed>>
  /\ UNCHANGED <<textVars, lookupVars, formatVars, stepVars>>

NextRegistry == RegisterTools \/ ListTools \/ CallTool

SpecRegistry == InitRegistry /\ [][NextRegistry]_vars

---------------------------------------------------------------------------
(* validateCitation step by step: the parse, the enumeration of            *)
(* legal_documents with the scoring loop, and the provision lookup, with   *)
(* the position of the call in vstate and the statements sent to the       *)
(* database in queries.                                                    *)

\* the orders in which SELECT ... FROM legal_documents can return the rows
RowOrders(docs) ==
  {rows \in [1..Cardinality(docs) -> docs] : Range(rows) = docs}

\* the loop that lets a later row of the same score replace bestDoc
RECURSIVE ScoringLoopLastWins(_, _)
ScoringLoopLastWins(rows, target) ==
  IF rows = <<>> THEN [bestScore |-> -1, bestDoc |-> Undefined]
  ELSE LET before == ScoringLoopLastWins(Take(rows, Len(rows) - 1), target)
           score == DocScore(rows[Len(rows)], target)
       IN  IF score >= before.bestScore
           THEN [bestScore |-> score, bestDoc |-> rows[Len(rows)]]
           ELSE before

\* for (const doc of docs) { ...; if (score > bestScore) { bestScore = score;
\* bestDoc = doc } }, after the last row of rows
RECURSIVE ScoringLoop(_, _)
ScoringLoop(rows, target) ==
  IF rows = <<>> THEN [bestScore |-> -1, bestDoc |-> Undefined]
  ELSE LET before == ScoringLoop(Take(rows, Len(rows) - 1), target)
           score == DocScore(rows[Len(rows)], target)
       IN  IF score > before.bestScore
           THEN [bestScore |-> score, bestDoc |-> rows[Len(rows)]]
           ELSE before

\* a parse that goes on to the documents with an empty title
ParseOutcomeWithoutTitleCheck(p) == IF ~p.valid THEN "Invalid" ELSE "Parsed"

\* if (!parsed.valid) return ...; if (!parsed.title) return ...
ParseOutcome(p) == IF ~p.valid \/ p.title = <<>> THEN "Invalid" ELSE "Parsed"

\* the result of the two returns before the database is read
InvalidResult(p) ==
  IF ~p.valid
  THEN RejectedResult(p, IF "error" \in DOMAIN p THEN p.error ELSE InvalidFormatWarning)
  ELSE RejectedResult(p, NoTitleWarning)

DocumentsQuery(rows) == [table |-> "legal_documents", rows |-> rows]

ProvisionQuery(documentId, sectionCandidates) ==
  [table |-> "legal_provisions", document_id |-> documentId,
   sections |-> sectionCandidates,
   provision_refs |-> {ProvisionRefCandidate(v) : v \in sectionCandidates}]

\* if (parsed.section) { ... db.prepare(query).get(...params) ... }
ProvisionQueries(doc, section) ==
  IF section = <<>> THEN <<>>
  ELSE <<ProvisionQuery(doc.id, buildSectionCandidates(section))>>

---------------------------------------------------------------------------
(* Inputs of the stepwise validator: documents with equal titles, with a   *)
(* title without letters or digits, and citations of every outcome.        *)

StepIds == {<<"c","p">>, <<"c","d">>}
StepTitles == {<<"C","p">>, <<"-">>}

StepDocuments ==
  {Document(i, t, Null, s) : i \in StepIds, t \in StepTitles, s \in Statuses}

StepDatabases ==
  UNION {{[legal_documents |-> docs, legal_provisions |-> rows] :
            rows \in ProvisionSets(docs)} :
         docs \in DocumentSets(StepDocuments)}

StepCitations == {
    <<"C","p",","," ","a","r","t","."," ","1">>,
    <<"C","p",","," ","a","r","t","."," ","2">>,
    <<"C",","," ","a","r","t","."," ","1">>,
    <<"C","p"," ","C","d",","," ","a","r","t","."," ","1">>,
    <<"X","y",","," ","a","r","t","."," ","1">>,
    <<"-",","," ","a","r","t","."," ","1">>,
    <<"C","p">>,
    <<".",","," ","a","r","t","."," ","1">>,
    <<" ">>,
    <<>>}

InitValidatorSteps ==
  /\ op = "init"
  /\ raw = <<>> /\ normalized = NoResult
  /\ citation \in StepCitations
  /\ parsed = NoResult
  /\ query = <<>> /\ sanitized = NoResult /\ variants = NoResult
  /\ db \in StepDatabases
  /\ inputId = <<>> /\ candidates = NoResult
  /\ resolved = NoResult /\ validation = NoResult
  /\ NoFormat /\ NoRegistry
  /\ vstate = "Start" /\ queries = <<>> /\ bestDoc = NoResult

otherVars ==
  <<raw, normalized, query, sanitized, variants, inputId, candidates, resolved,
    formatVars, registryVars>>

\* the two early returns, or the way on, for the parse result p
AfterParse(p, outcome) ==
  /\ parsed' = p
  /\ vstate' = outcome
  /\ validation' = IF outcome = "Invalid" THEN InvalidResult(p) ELSE validation

\* const parsed = parseCitation(citation), and the two early returns
ParseStep ==
  /\ vstate = "Start"
  /\ op' = "parseCitation"
  /\ AfterParse(parseCitation(citation), ParseOutcome(parseCitation(citation)))
  /\ UNCHANGED <<citation, db, queries, bestDoc, otherVars>>

\* const doc = bestScore > 0 ? bestDoc : undefined, and the return of the call
\* when there is none
AfterScoring(best) ==
  IF best.bestScore > 0
  THEN /\ bestDoc' = best.bestDoc
       /\ vstate' = "DocumentResolved"
       /\ validation' = validation
  ELSE /\ bestDoc' = Undefined
       /\ vstate' = "DocumentNotFound"
       /\ validation' = RejectedResult(parsed, DocumentNotFoundWarning(parsed.title))

\* the SELECT over legal_documents and the scoring loop over its rows
ResolveStep ==
  /\ vstate = "Parsed"
  /\ op' = "resolveDocument"
  /\ \E rows \in RowOrders(db.legal_documents) :
       /\ queries' = Append(queries, DocumentsQuery(rows))
       /\ AfterScoring(ScoringLoop(rows, normalizeLookup(parsed.title)))
  /\ UNCHANGED <<citation, parsed, db, otherVars>>

\* the repeal warning, the provision lookup when the citation has a section,
\* and the last return
ProvisionStep ==
  /\ vstate = "DocumentResolved"
  /\ op' = "checkProvision"
  /\ queries' = queries \o ProvisionQueries(bestDoc, parsed.section)
  /\ validation' = ResolvedResult(parsed, bestDoc,
                                  ProvisionExists(db, bestDoc, parsed.section))
  /\ vstate' = "ProvisionChecked"
  /\ UNCHANGED <<citation, parsed, db, bestDoc, otherVars>>

NextValidatorSteps == ParseStep \/ ResolveStep \/ ProvisionStep

SpecValidatorSteps == InitValidatorSteps /\ [][NextValidatorSteps]_vars

---------------------------------------------------------------------------
(* Article number normalizer: properties.                                  *)

Normalized == op = "normalizeArticleNum"

\* C1: normalizing the value normalizeArticleNum returned gives that value
\* again: normalizeArticleNum(normalizeArticleNum(s)) = normalizeArticleNum(s).
NormalizeIdempotent ==
  Normalized => normalizeArticleNum(normalized) = normalized

\* the text after the class letter: an optional period, an optional asterisk,
\* optional whitespace, and then only digits (at least one)
MarksOf(s) ==
  LET afterDot == IF s # <<>> /\ s[1] = "." THEN Drop(s, 1) ELSE s
      afterStar == IF afterDot # <<>> /\ afterDot[1] = "*"
                   THEN Drop(afterDot, 1) ELSE afterDot
  IN  Drop(afterStar, LeadingSpaces(afterStar))
IsPrefixedNumber(r) ==
  /\ r # Undefined
  /\ Len(r) >= 2
  /\ IsClassLetter(r[1])
  /\ MarksOf(Drop(r, 1)) # <<>>
  /\ \A c \in Range(MarksOf(Drop(r, 1))) : IsDigit(c)

\* C2: a class letter in either case, an optional period and/or asterisk and
\* whitespace, then digits, normalizes to the upper-case letter immediately
\* followed by the digits; empty or undefined input gives the empty string.
NormalizeUppercasesPrefix ==
  Normalized =>
    /\ (raw = <<>> \/ raw = Undefined) => normalized = <<>>
    /\ IsPrefixedNumber(raw) =>
         normalized = <<UpperChar(raw[1])>> \o MarksOf(Drop(raw, 1))

---------------------------------------------------------------------------
(* The components together.                                                *)

Init ==
  \/ InitNormalizer \/ InitParser \/ InitFts \/ InitResolver \/ InitValidator
  \/ InitFormatter \/ InitRegistry \/ InitValidatorSteps
Next ==
  \/ NextNormalizer \/ NextParser \/ NextFts \/ NextResolver \/ NextValidator
  \/ NextFormatter \/ NextRegistry \/ NextValidatorSteps
Spec == Init /\ [][Next]_vars

---------------------------------------------------------------------------
(* Citation parser: properties.                                            *)

Parsed == op = "parseCitation"
Accepted == Parsed /\ parsed.valid
Rejected == Parsed /\ ~parsed.valid

IsBlank(s) == \A i \in 1..Len(s) : s[i] \in {" ", "\t", "\n"}

\* C3: parseCitation returns a result for every input; a blank input is
\* rejected with 'Empty citation'; a rejected result has type 'unknown', an
\* error text and neither title nor section; an accepted result has type
\* 'statute' and a non-empty section.
ParseResultShape ==
  Parsed =>
    /\ "valid" \in DOMAIN parsed
    /\ IsBlank(citation) =>
         ~parsed.valid /\ parsed.error = EmptyCitationError
    /\ ~parsed.valid =>
         /\ parsed.type = "unknown"
         /\ "error" \in DOMAIN parsed /\ parsed.error # <<>>
         /\ "title" \notin DOMAIN parsed
         /\ "section" \notin DOMAIN parsed
    /\ parsed.valid =>
         /\ parsed.type = "statute"
         /\ "section" \in DOMAIN parsed /\ parsed.section # <<>>

\* a whitespace-only citation has been parsed and rejected
BlankCitationRejected ==
  Rejected /\ citation # <<>> /\ IsBlank(citation)

\* C4: the section of an accepted citation is normalizeArticleNum applied to
\* the article token text the pattern captured.
SectionIsNormalizedToken ==
  Accepted =>
    parsed.section =
      normalizeArticleNum(MatchPatterns(normalizeInput(trim(citation)))[2])

\* the places where the citation reads "<T>, art. <K>"
TitleFirstSplits(c) ==
  {i \in 1..(Len(c) - Len(TitleFirstFrame) + 1) :
     SubSeq(c, i, i + Len(TitleFirstFrame) - 1) = TitleFirstFrame}

\* a title of the claim: not empty, no comma, no article keyword
IsClaimTitle(T) ==
  /\ T # <<>>
  /\ \A i \in 1..Len(T) : T[i] # ","
  /\ ~Contains(toLowerCase(T), <<"a", "r", "t">>)

\* a title the parser returns unchanged: single plain spaces inside only, no
\* typographic apostrophe or grave accent, no closing . , ; :
IsNormalTitle(T) ==
  /\ T # <<>>
  /\ \A i \in 1..Len(T) : T[i] \notin {"\t", "\n", CurlyQuote, GraveAccent}
  /\ T[1] # " " /\ T[Len(T)] # " "
  /\ \A i \in 1..(Len(T) - 1) : ~(T[i] = " " /\ T[i + 1] = " ")
  /\ T[Len(T)] \notin {".", ",", ";", ":"}

BothOrdersGive(T, K) ==
  LET other == parseCitation(ArticleFirst(T, K))
  IN  /\ parsed.valid /\ other.valid
      /\ parsed.title = T /\ other.title = T
      /\ parsed.section = other.section

\* C5 as stated: for every title T without comma and keyword and every
\* article token K, 'T, art. K' and 'Article K du T' are both accepted with
\* the title T and the same section.
BothOrdersAgree ==
  Parsed =>
    \A i \in TitleFirstSplits(citation) :
      LET T == Take(citation, i - 1)
          K == Drop(citation, i + Len(TitleFirstFrame) - 1)
      IN  IsClaimTitle(T) /\ ARTICLE_TOKEN(K) => BothOrdersGive(T, K)

\* C5 amended: the same, for the titles that are in the form the parser
\* returns (IsNormalTitle).
BothOrdersAgreeOnNormalTitles ==
  Parsed =>
    \A i \in TitleFirstSplits(citation) :
      LET T == Take(citation, i - 1)
          K == Drop(citation, i + Len(TitleFirstFrame) - 1)
      IN  IsClaimTitle(T) /\ IsNormalTitle(T) /\ ARTICLE_TOKEN(K)
            => BothOrdersGive(T, K)

\* 'Cp, art. L. 1-1' has been parsed
TitleFirstCitationParsed ==
  /\ Accepted
  /\ citation = TitleFirst(<<"C", "p">>, <<"L", ".", " ", "1", "-", "1">>)
  /\ parsed.title = <<"C", "p">>
  /\ parseCitation(ArticleFirst(<<"C", "p">>, <<"L", ".", " ", "1", "-", "1">>)).valid

\* C6 as stated: when no pattern matches, the error text contains the
\* citation exactly as passed, surrounding whitespace included.
ErrorContainsUntrimmedInput ==
  (Rejected /\ ~IsBlank(citation)) => Contains(parsed.error, citation)

\* the citation without its leading and trailing whitespace
Unpadded(c) ==
  LET keep == {i \in 1..Len(c) : c[i] \notin {" ", "\t", "\n"}}
  IN  SubSeq(c, Min(keep), Max(keep))

\* C6 amended: when no pattern matches, the error text contains, between
\* double quotes, the citation with its leading and trailing whitespace
\* removed and otherwise unchanged.
ErrorContainsTrimmedInput ==
  (Rejected /\ ~IsBlank(citation)) =>
    Contains(parsed.error, <<"\"">> \o Unpadded(citation) \o <<"\"">>)

\* a citation with surrounding whitespace has been rejected
PaddedCitationRejected ==
  Rejected /\ ~IsBlank(citation) /\ Unpadded(citation) # citation

\* C7: the title of an accepted citation has no leading or trailing
\* whitespace, no run of two whitespace characters, and does not end with
\* '.', ',', ';' or ':'.
TitleIsClean ==
  Accepted =>
    LET t == parsed.title
    IN  t # <<>> =>
          /\ t[1] \notin {" ", "\t", "\n"}
          /\ t[Len(t)] \notin {" ", "\t", "\n"}
          /\ \A i \in 1..(Len(t) - 1) :
               ~(t[i] \in {" ", "\t", "\n"} /\ t[i + 1] \in {" ", "\t", "\n"})
          /\ t[Len(t)] \notin {".", ",", ";", ":"}

---------------------------------------------------------------------------
(* FTS5 query builder: properties.                                         *)

Sanitized == op = "sanitizeFtsInput"
Built == op = "buildFtsQueryVariants"

FtsSpecials == {"(", ")", "{", "}", "^", "+", ":", "."}
HasFtsSpecial(s) == \E i \in 1..Len(s) : s[i] \in FtsSpecials

\* C8: sanitizeFtsInput(s) contains none of ( ) { } ^ + : . and is never
\* longer than s.
SanitizedIsSafeAndNoLonger ==
  Sanitized => ~HasFtsSpecial(sanitized) /\ Len(sanitized) <= Len(query)

\* a query with a special character has been sanitized to a shorter text
SpecialCharacterSanitized ==
  /\ Sanitized
  /\ HasFtsSpecial(query)
  /\ sanitized # <<>>
  /\ Len(sanitized) < Len(query)

\* C9: for a non-empty query, primary is not the empty string.
PrimaryNeverEmpty ==
  (Built /\ query # <<>>) => variants.primary # <<>>

\* C10: neither primary nor fallback contains any of ( ) { } ^ + : .
NoSpecialReachesEngine ==
  Built =>
    /\ ~HasFtsSpecial(variants.primary)
    /\ "fallback" \in DOMAIN variants => ~HasFtsSpecial(variants.fallback)

\* the trimmed query is on the plain free-text branch
IsPlainQuery(q) == ~EXPLICIT_FTS_SYNTAX(trim(q))

\* the tokens of a plain query that are left once every character outside
\* word characters, extended Latin letters and hyphen is stripped and the
\* tokens that became empty are dropped
RemainingTokens(q) == SelectSeq(PlainTokens(trim(q)), LAMBDA t : t # <<>>)

QuotedPrefix(t) == <<"\"">> \o t \o <<"\"", "*">>
UnquotedPrefix(t) == t \o <<"*">>

\* C11: on the plain branch no emptied token reaches the variants: primary
\* holds no '""*', fallback holds no bare '*', and when every token is
\* dropped the result is the trimmed query as primary with no fallback.
EmptiedTokensAreDropped ==
  (Built /\ IsPlainQuery(query)) =>
    /\ ~Contains(variants.primary, QuotedPrefix(<<>>))
    /\ "fallback" \in DOMAIN variants =>
         ~Contains(<<" ">> \o variants.fallback, <<" ", "*">>)
    /\ RemainingTokens(query) = <<>> => variants = [primary |-> trim(query)]

QuoteCount(s) == Cardinality({i \in 1..Len(s) : s[i] = "\""})
EndsWithStar(s) == s # <<>> /\ s[Len(s)] = "*"
BooleanKeywords == {<<"A", "N", "D">>, <<"O", "R">>, <<"N", "O", "T">>}

\* C12: a query with explicit syntax gives exactly one variant, primary =
\* sanitizeFtsInput(trimmed query), keeping every double quote, boolean
\* keyword and the closing wildcard, and no fallback; a fallback is returned
\* exactly when the query is plain and at least one token remains.
ExplicitSyntaxIsAllOrNothing ==
  Built =>
    /\ ~IsPlainQuery(query) =>
         /\ variants = [primary |-> sanitizeFtsInput(trim(query))]
         /\ QuoteCount(variants.primary) = QuoteCount(query)
         /\ EndsWithStar(trim(query)) => EndsWithStar(variants.primary)
         /\ \A w \in BooleanKeywords :
              HasWholeWord(query, w) => HasWholeWord(variants.primary, w)
    /\ "fallback" \in DOMAIN variants
         <=> (IsPlainQuery(query) /\ RemainingTokens(query) # <<>>)

\* C13: for a plain query with remaining tokens t1..tn, n >= 1, primary is
\* "t1"* ... "tn"* joined by single spaces and fallback is t1* ... tn* joined
\* by ' OR ', in input order.
VariantsBuiltFromTokens ==
  (Built /\ IsPlainQuery(query) /\ RemainingTokens(query) # <<>>) =>
    LET ts == RemainingTokens(query)
    IN  variants =
          [primary |-> Join([i \in 1..Len(ts) |-> QuotedPrefix(ts[i])], <<" ">>),
           fallback |-> Join([i \in 1..Len(ts) |-> UnquotedPrefix(ts[i])],
                             <<" ", "O", "R", " ">>)]

---------------------------------------------------------------------------
(* Statute identifier resolver: properties.                                *)

Resolved == op = "resolveExistingStatuteId"
HasId(value) == \E d \in db.legal_documents : d.id = value

\* C14: the three lookups apply in fixed precedence: a stored id equal to the
\* input is returned whatever the titles hold; otherwise a stored id equal to
\* the trimmed lower-cased input is returned whatever the titles hold; only
\* when neither id lookup hits is the id of a row whose title matches the
\* input returned (or null when no title matches).
FirstHitWins ==
  Resolved =>
    LET lower == toLowerCase(trim(inputId))
    IN  /\ HasId(inputId) => resolved = inputId
        /\ (~HasId(inputId) /\ HasId(lower)) => resolved = lower
        /\ (~HasId(inputId) /\ ~HasId(lower)) =>
             resolved \in OrNull(IdsByTitle(db, inputId))

\* an id equal to the input was returned although the title of another
\* document contains the input
ExactIdBeatsTitle ==
  /\ Resolved
  /\ resolved = inputId
  /\ \E d \in db.legal_documents : d.id # inputId /\ Contains(d.title, inputId)

\* x has spaces where y has hyphens and is otherwise the same text
SpacesForHyphens(x, y) ==
  /\ Len(x) = Len(y)
  /\ \A i \in 1..Len(x) : x[i] = y[i] \/ (x[i] = " " /\ y[i] = "-")

SameButForCase(x, y) == toLowerCase(x) = toLowerCase(y)

SameButForStyle(x, y) ==
  SpacesForHyphens(x, y) \/ SpacesForHyphens(y, x) \/ SameButForCase(x, y)

\* C15: an input that differs from a stored id only by spaces in the place of
\* hyphens, hyphens in the place of spaces, or letter case resolves to that
\* id; and the candidate forms of an input are exactly its trimmed lower-cased
\* form, its trimmed form, and the space-to-hyphen and hyphen-to-space forms.
EitherStyleResolves ==
  /\ Resolved =>
       \A d \in db.legal_documents :
         SameButForStyle(inputId, d.id) => resolved = d.id
  /\ op = "statuteIdCandidates" =>
       Range(candidates) =
         {toLowerCase(trim(inputId)), trim(inputId),
          SpacesToHyphen(toLowerCase(trim(inputId))),
          HyphensToSpace(toLowerCase(trim(inputId)))}

---------------------------------------------------------------------------
(* Citation validator: properties.                                         *)

Validated == op = "validateCitation"

\* no stored document is related to the title of the parsed citation
NoDocumentScores(p) ==
  \A d \in db.legal_documents : DocScore(d, normalizeLookup(p.title)) = 0

\* C16: a result with document_exists = false has provision_exists = false
\* and exactly one, non-empty, warning; the unparsable citation, the accepted
\* citation with an empty title and the title no stored document scores on
\* all give document_exists = false; provision_exists = true implies
\* document_exists = true.
NoDocumentNoProvision ==
  Validated =>
    /\ ~validation.document_exists =>
         /\ ~validation.provision_exists
         /\ Len(validation.warnings) = 1
         /\ validation.warnings[1] # <<>>
    /\ validation.provision_exists => validation.document_exists
    /\ ~validation.citation.valid => ~validation.document_exists
    /\ (validation.citation.valid /\ validation.citation.title = <<>>)
         => ~validation.document_exists
    /\ (validation.citation.valid /\ validation.citation.title # <<>>
          /\ NoDocumentScores(validation.citation))
         => ~validation.document_exists

\* an accepted citation with an empty title was validated against a database
\* that holds documents
EmptyTitleRejected ==
  /\ Validated
  /\ validation.citation.valid
  /\ validation.citation.title = <<>>
  /\ db.legal_documents # {}
  /\ ~validation.document_exists

\* the database with the status of the document d set to s
WithStatus(database, d, s) ==
  [database EXCEPT !.legal_documents = (@ \ {d}) \cup {[d EXCEPT !.status = s]}]

\* v and w differ in their warnings only by the repeal warning, which the one
\* with the repealed status carries in front
DifferByRepealWarning(v, w) ==
  IF v.status = "repealed"
  THEN v.warnings = <<RepealedWarning>> \o w.warnings
  ELSE w.warnings = <<RepealedWarning>> \o v.warnings

\* the result when the loop over the rows of database ends with bestDoc = d
ResultWith(database, p, d) ==
  ResolvedResult(p, d, ProvisionExists(database, d, p.section))

\* C17: changing only the status of the resolved document to or from
\* 'repealed' leaves document_exists, provision_exists and document_title as
\* they are, and changes the warnings by the repeal warning only.
RepealIsInformational ==
  (Validated /\ validation.document_exists) =>
    \A d \in BestDocs(db.legal_documents, normalizeLookup(validation.citation.title)) :
      (validation = ResultWith(db, validation.citation, d)) =>
        \A s \in Statuses \ {d.status} :
          LET w == ResultWith(WithStatus(db, d, s), validation.citation,
                              [d EXCEPT !.status = s])
          IN  /\ w \in validateCitation(WithStatus(db, d, s), citation)
              /\ w.document_exists = validation.document_exists
              /\ w.provision_exists = validation.provision_exists
              /\ w.document_title = validation.document_title
              /\ DifferByRepealWarning(validation, w)

\* a repealed document resolved and its provision exists
RepealedProvisionFound ==
  /\ Validated
  /\ validation.document_exists
  /\ validation.status = "repealed"
  /\ validation.provision_exists
  /\ validation.warnings = <<RepealedWarning>>

\* C18: when the document resolves, warnings is the repeal warning (if the
\* status is 'repealed') followed by 'Article <section> not found in <document
\* title>' (if the provision check fails); it is empty exactly when the
\* document is not repealed and the provision exists.
WarningsInFixedOrder ==
  (Validated /\ validation.document_exists) =>
    /\ validation.warnings =
         (IF validation.status = "repealed" THEN <<RepealedWarning>> ELSE <<>>)
         \o (IF validation.provision_exists THEN <<>>
             ELSE <<ArticleNotFoundWarning(validation.citation.section,
                                           validation.document_title)>>)
    /\ validation.warnings = <<>>
         <=> (validation.status # "repealed" /\ validation.provision_exists)

\* an existing, repealed document without the cited article: both warnings
BothWarningsTogether ==
  /\ Validated
  /\ validation.document_exists
  /\ ~validation.provision_exists
  /\ Len(validation.warnings) = 2

\* pairs of citations with the same article token and titles of one lookup form
LookupPairs == {
    <<<<"C","e"," ","d",","," ","a","r","t","."," ","1">>,
      <<"C","é"," ","d",","," ","a","r","t","."," ","1">>>>,
    <<<<"C","é"," ","d",","," ","a","r","t","."," ","1">>,
      <<"C","e"," ","d",","," ","a","r","t","."," ","1">>>>,
    <<<<"C","E","-","D",","," ","a","r","t","."," ","L","1","-","1">>,
      <<"C","é"," ","d",","," ","a","r","t","."," ","L","."," ","1","-","1">>>>,
    <<<<"C","p",","," ","a","r","t","."," ","L","."," ","1","-","1">>,
      <<"C","p"," ","a","r","t","."," ","l","."," ","1","-","1">>>>,
    <<<<"-",","," ","a","r","t","."," ","1">>,
      <<".",","," ","a","r","t","."," ","1">>>>,
    <<<<".",","," ","a","r","t","."," ","1">>,
      <<"-",","," ","a","r","t","."," ","1">>>>,
    <<<<"A","r","t","i","c","l","e"," ","1"," ","d","u"," ","C","p">>,
      <<"C","p",","," ","a","r","t","."," ","1">>>>}

\* the words of a title: its maximal runs of letters and digits, accents
\* stripped and letters lower-cased
TitleWords(title) ==
  SelectSeq(SplitSpaces([i \in 1..Len(title) |->
                           IF IsAsciiLetter(StripAccent(title[i])) \/ IsDigit(title[i])
                           THEN LowerChar(StripAccent(title[i])) ELSE " "]),
            LAMBDA word : word # <<>>)

SameLookupForm(p, q) ==
  /\ p.valid /\ q.valid
  /\ p.section = q.section
  /\ TitleWords(p.title) = TitleWords(q.title)

\* C19 as stated: two citations with the same article token and titles of the
\* same lookup form give the same document_exists, provision_exists,
\* document_title and warnings against the same database.
LookupFormDecidesResult ==
  Validated =>
    \A pair \in LookupPairs :
      (citation = pair[1] /\ SameLookupForm(validation.citation, parseCitation(pair[2]))) =>
        \E w \in validateCitation(db, pair[2]) :
          /\ w.document_exists = validation.document_exists
          /\ w.provision_exists = validation.provision_exists
          /\ w.document_exists => w.document_title = validation.document_title
          /\ w.warnings = validation.warnings

\* C19 amended: for non-empty titles, the same document_exists,
\* provision_exists and document_title, and the same warnings whenever the
\* document resolves.
LookupFormDecidesResolution ==
  Validated =>
    \A pair \in LookupPairs :
      (/\ citation = pair[1]
       /\ SameLookupForm(validation.citation, parseCitation(pair[2]))
       /\ validation.citation.title # <<>>
       /\ parseCitation(pair[2]).title # <<>>) =>
        \E w \in validateCitation(db, pair[2]) :
          /\ w.document_exists = validation.document_exists
          /\ w.provision_exists = validation.provision_exists
          /\ w.document_exists =>
               /\ w.document_title = validation.document_title
               /\ w.warnings = validation.warnings

\* the unaccented spelling of an accented stored title resolved
UnaccentedTitleResolved ==
  /\ Validated
  /\ citation = <<"C","e"," ","d",","," ","a","r","t","."," ","1">>
  /\ validation.document_exists
  /\ validation.document_title = <<"C","é"," ","d">>

\* C20: a citation that is the title of a stored document and nothing else is
\* accepted with document_exists = true and provision_exists = true.
DocumentOnlyCitationAccepted ==
  (Validated /\ \E d \in db.legal_documents : citation = d.title) =>
    validation.document_exists /\ validation.provision_exists

---------------------------------------------------------------------------
(* Citation formatter: properties.                                         *)

Formatted == op = "formatCitation"
Titled == op = "articleTitle"

Absent(p, field) == field \notin DOMAIN p \/ p[field] = <<>>

IsNormalizedToken(t) ==
  /\ ARTICLE_TOKEN(t)
  /\ normalizeArticleRef(t) = t
  /\ normalizeArticleNum(t) = t

\* C22: for a normalized grammar token t, the pinpoint form of
\* {valid, title 'X', section t} without its leading 'art. ', given to
\* normalizeArticleNum, is t again.
PinpointRoundTrips ==
  (/\ Formatted /\ format = "pinpoint"
   /\ parsed.valid /\ ~Absent(parsed, "title") /\ ~Absent(parsed, "section")
   /\ IsNormalizedToken(parsed.section)) =>
    normalizeArticleNum(Drop(formatted, 5)) = parsed.section

\* the article text formatCitation renders for the token
RenderedArticle(token) ==
  Drop(formatCitation([valid |-> TRUE, type |-> "statute",
                       title |-> <<"X">>, section |-> token], "pinpoint"), 5)

\* C23: for every article token, articleTitle(token) is 'Article ' followed by
\* the article text formatCitation renders for it; the token is split, as
\* '<LETTER>. <rest>', exactly when it is one of L, R, D, A followed by a
\* digit.
SamePrefixSplit ==
  (Titled /\ ARTICLE_TOKEN(raw)) =>
    /\ displayTitle = <<"A", "r", "t", "i", "c", "l", "e", " ">> \o RenderedArticle(raw)
    /\ Contains(RenderedArticle(raw), <<".", " ">>)
         <=> (Len(raw) >= 2 /\ IsClassLetter(raw[1]) /\ IsDigit(raw[2]))

---------------------------------------------------------------------------
(* Tool registry: properties.                                              *)

Called == op = "callTool"

IsError(r) == "isError" \in DOMAIN r /\ r.isError

ResponseText(r) == r.content[1].text

UnknownToolError(name) ==
  <<"E","r","r","o","r",":"," ","U","n","k","n","o","w","n"," ","t","o","o","l"," ","\"">> \o NameText(name) \o <<"\"",".">>

\* C24: every tool name the list-tools handler returned is handled by the
\* call-tool handler: a call of a listed name is never answered with the
\* 'Unknown tool' error; 'about' is listed exactly when registerTools was given
\* an about-context; and a call of 'about' whose implementation returns is
\* answered without isError exactly when 'about' is listed.
ListedToolsAreHandled ==
  listed # NoResult =>
    /\ ABOUT_TOOL \in Range(listed) <=> context # Undefined
    /\ Called =>
         /\ \A i \in 1..Len(listed) :
              request.name = listed[i] =>
                ResponseText(response) # UnknownToolError(listed[i])
         /\ (request.name = ABOUT_TOOL /\ request.outcome.kind = "returns") =>
              (~IsError(response) <=> ABOUT_TOOL \in Range(listed))

\* witness of C24: 'about' was listed, then called, and answered with a result
ListedAboutAnswered ==
  /\ Called /\ listed # NoResult
  /\ ABOUT_TOOL \in Range(listed)
  /\ request.name = ABOUT_TOOL /\ request.outcome.kind = "returns"
  /\ ~IsError(response)

\* C27: the call-tool handler always answers: every call gets a response with
\* a text content; a name the switch does not know gets isError with the text
\* 'Error: Unknown tool "<name>".'; an exception of a tool implementation is
\* answered with isError and 'Error: <message>'; and a response without
\* isError carries the JSON serialization of the tool's result.
CallAlwaysAnswered ==
  Called =>
    /\ DOMAIN response \in {{"content"}, {"content", "isError"}}
    /\ Len(response.content) = 1 /\ response.content[1].type = "text"
    /\ request.name \notin Range(TOOLS) \cup {ABOUT_TOOL} =>
         /\ IsError(response)
         /\ ResponseText(response) = UnknownToolError(request.name)
    /\ (request.name \in Range(allTools) /\ request.outcome.kind # "returns") =>
         /\ IsError(response)
         /\ ResponseText(response) = <<"E","r","r","o","r",":"," ">> \o request.outcome.value
    /\ ~IsError(response) =>
         /\ request.outcome.kind = "returns"
         /\ ResponseText(response) = Stringify(request.outcome.value)

\* witness of C27: a storage read failure inside a tool came back as an error
StorageFailureAnswered ==
  /\ Called
  /\ request.name = "search_legislation"
  /\ request.outcome = [kind |-> "throws", value |-> <<"n","o"," ","s","u","c","h"," ","t","a","b","l","e",":"," ","l","e","g","a","l","_","d","o","c","u","m","e","n","t","s">>]
  /\ IsError(response)
  /\ ResponseText(response) = <<"E","r","r","o","r",":"," ">> \o <<"n","o"," ","s","u","c","h"," ","t","a","b","l","e",":"," ","l","e","g","a","l","_","d","o","c","u","m","e","n","t","s">>

---------------------------------------------------------------------------
(* Stepwise validator: properties.                                         *)

TerminalStates == {"Invalid", "DocumentNotFound", "ProvisionChecked"}

\* the stepwise call returns what validateCitation returns
StepsAgreeWithCall ==
  vstate \in TerminalStates => validation \in validateCitation(db, citation)

\* the lookup forms of the fields a document has
NormalizedFields(d) ==
  {normalizeLookup(d.title), normalizeLookup(d.id)}
    \cup (IF d.short_name = Null THEN {} ELSE {normalizeLookup(d.short_name)})

\* 4 for equal, 3 for field contains title, 2 for title contains field, else 0
RelationScore(field, target) ==
  IF field = target THEN 4
  ELSE IF Contains(field, target) THEN 3
  ELSE IF Contains(target, field) THEN 2
  ELSE 0

\* the highest relation over the title, the short name and the id
StatedScore(d, target) ==
  Max({RelationScore(f, target) : f \in NormalizedFields(d)})

\* the highest relation over those fields whose lookup form is not empty
ComparedScore(d, target) ==
  Max({0} \cup {RelationScore(f, target) : f \in NormalizedFields(d) \ {<<>>}})

AfterResolution == vstate \in {"DocumentResolved", "DocumentNotFound", "ProvisionChecked"}

\* resolution under the score Score: the resolved document is the first row,
\* in the order of the enumeration, of the highest score, which is positive;
\* no document resolves exactly when every row scores 0
PicksFirstMaximum(Score(_, _), rows, target) ==
  /\ vstate = "DocumentNotFound" <=> \A i \in 1..Len(rows) : Score(rows[i], target) = 0
  /\ vstate # "DocumentNotFound" =>
       \E i \in 1..Len(rows) :
         /\ bestDoc = rows[i]
         /\ Score(rows[i], target) > 0
         /\ \A j \in 1..Len(rows) : Score(rows[j], target) <= Score(rows[i], target)
         /\ \A j \in 1..(i - 1) : Score(rows[j], target) < Score(rows[i], target)
  /\ vstate \in TerminalStates =>
       (~validation.document_exists
          <=> \A i \in 1..Len(rows) : Score(rows[i], target) = 0)

\* C25 as stated: with each document scored by the highest of 4 (normalized
\* field equals normalized title), 3 (field contains title), 2 (title contains
\* field), else 0 over its title, short name and id, the resolved document has
\* a positive score no other document exceeds, ties go to the first document
\* of the enumeration, and document_exists is false exactly when every
\* document scores 0.
ScoredResolutionPicksMaximum ==
  AfterResolution =>
    PicksFirstMaximum(StatedScore, queries[1].rows, normalizeLookup(parsed.title))

\* C25 amended: the same, with the score taken over those of the title, the
\* short name and the id whose normalized form is not empty (0 when none is).
ScoredResolutionSkipsEmptyFields ==
  AfterResolution =>
    PicksFirstMaximum(ComparedScore, queries[1].rows, normalizeLookup(parsed.title))

\* witness of C25: two documents with the same title tie and the first row of
\* the enumeration is the resolved one
TieGoesToFirstRow ==
  /\ vstate = "ProvisionChecked"
  /\ Len(queries[1].rows) = 2
  /\ queries[1].rows[1].title = queries[1].rows[2].title
  /\ ComparedScore(queries[1].rows[1], normalizeLookup(parsed.title)) = 4
  /\ ComparedScore(queries[1].rows[2], normalizeLookup(parsed.title)) = 4
  /\ bestDoc = queries[1].rows[1]
  /\ validation.document_exists

\* the provision r answers the lookup for the article token section
MatchesArticle(r, section) ==
  \/ SqlUpper(SelectSeq(r.section, LAMBDA c : c # ".")) \in buildSectionCandidates(section)
  \/ SqlLower(r.provision_ref)
       \in {<<"a", "r", "t">> \o toLowerCase(WithoutArtPrefix(v)) :
              v \in buildSectionCandidates(section)}

\* C26: when a document resolves and the citation has an article token,
\* provision_exists is true exactly when a stored provision of the resolved
\* document has its section (upper-cased, periods removed) among the section
\* candidates or its provision_ref (lower-cased) among the 'art'-prefixed
\* candidates; a matching provision of another document does not count.
ProvisionOfResolvedDocument ==
  (vstate = "ProvisionChecked" /\ parsed.section # <<>>) =>
    (validation.provision_exists
       <=> \E r \in db.legal_provisions :
             r.document_id = bestDoc.id /\ MatchesArticle(r, parsed.section))

\* witness of C26: the cited article is stored, but only for another document
\* than the resolved one
ArticleOfOtherDocumentOnly ==
  /\ vstate = "ProvisionChecked" /\ parsed.section # <<>>
  /\ ~validation.provision_exists
  /\ \E r \in db.legal_provisions :
       r.document_id # bestDoc.id /\ MatchesArticle(r, parsed.section)

\* C28: a title whose normalized lookup form is empty (only punctuation,
\* symbols or non-Latin characters) never resolves: document_exists is false
\* whatever documents are stored.
EmptyLookupFormNeverResolves ==
  (/\ Validated
   /\ validation.citation.valid
   /\ validation.citation.title # <<>>
   /\ TitleWords(validation.citation.title) = <<>>)
    => ~validation.document_exists

---------------------------------------------------------------------------
(* Statute identifier resolver: literal matching.                          *)

\* C29: resolveExistingStatuteId returns null or the id of a stored document;
\* a non-null id only if the input is a stored id, exactly or after trim and
\* lower-casing, or a literal contiguous part of a stored title ('%' and '_'
\* standing for themselves); and null for the empty input.
ResolvesByLiteralMatch ==
  Resolved =>
    /\ resolved # Null => \E d \in db.legal_documents : resolved = d.id
    /\ resolved # Null =>
         \E d \in db.legal_documents :
           \/ d.id = inputId
           \/ d.id = toLowerCase(trim(inputId))
           \/ Contains(d.title, inputId)
    /\ inputId = <<>> => resolved = Null

StepOrder ==
  {<<"Start", "Parsed">>, <<"Start", "Invalid">>,
   <<"Parsed", "DocumentResolved">>, <<"Parsed", "DocumentNotFound">>,
   <<"DocumentResolved", "ProvisionChecked">>}

StepInOrder == <<vstate, vstate'>> \in StepOrder

IsProvisionQuery(q) == q.table = "legal_provisions"

\* what has been sent to the database, against the position of the call
QueriesFollowSteps ==
  /\ Len(queries) <= 2
  /\ vstate \in {"Start", "Parsed", "Invalid"} => queries = <<>>
  /\ (vstate # "Start" /\ (~parsed.valid \/ parsed.title = <<>>)) =>
       vstate = "Invalid" /\ queries = <<>>
  /\ \A i \in 1..Len(queries) :
       IF i = 1 THEN queries[i].table = "legal_documents"
       ELSE /\ IsProvisionQuery(queries[i])
            /\ vstate = "ProvisionChecked"
            /\ parsed.section # <<>>
            /\ bestDoc \in db.legal_documents
            /\ ComparedScore(bestDoc, normalizeLookup(parsed.title)) > 0
            /\ queries[i].document_id = bestDoc.id
  /\ vstate = "ProvisionChecked" => (Len(queries) = 2 <=> parsed.section # <<>>)

\* the call has returned exactly in the three terminal positions, with the
\* result that belongs to the position
ReturnsAtTerminal ==
  /\ vstate \in {"Start", "Parsed", "DocumentResolved"} \cup TerminalStates
  /\ vstate \notin TerminalStates => validation = NoResult
  /\ vstate = "Invalid" =>
       ~validation.document_exists /\ (~parsed.valid \/ parsed.title = <<>>)
  /\ vstate = "DocumentNotFound" =>
       ~validation.document_exists /\ parsed.valid /\ parsed.title # <<>>
  /\ vstate = "ProvisionChecked" => validation.document_exists

\* C30: a call moves through Start, Parsed, DocumentResolved and
\* ProvisionChecked in this order, leaving it only for Invalid (from Start) or
\* DocumentNotFound (from Parsed); the database is not read for an unparsable
\* citation or an empty title; the provision lookup is sent only after a
\* document resolved with a positive score and only for a citation with an
\* article token; and a call returns in exactly one of Invalid,
\* DocumentNotFound and ProvisionChecked, from which there is no further step.
ValidationFollowsStateOrder ==
  /\ []QueriesFollowSteps
  /\ []ReturnsAtTerminal
  /\ [][StepInOrder]_vars

\* witness of C30: a call went through all steps and read both tables
BothTablesRead ==
  /\ vstate = "ProvisionChecked"
  /\ Len(queries) = 2
  /\ queries[1].table = "legal_documents"
  /\ queries[2].table = "legal_provisions"
  /\ validation.document_exists

===========================================================================
